---- MODULE Spec2Model ----
(***************************************************************************)
(* Verification model of joshuaprince/blackjack_composition.               *)
(*                                                                         *)
(* The module models, from the Rust sources,                               *)
(*   - the hand algebra (Hand, CanonicalHand, HashedDealerHand, Deck),     *)
(*   - the basic-strategy chart lookup (basic_plays, context_basic_play),  *)
(*   - the dealer-outcome solver and the next-card distribution helper,    *)
(*   - the player EV solver's call tree (ev, ev_stand, ev_hit, ev_double,  *)
(*     ev_split), walked one call at a time,                               *)
(*   - the deck handling of play_hand.                                     *)
(*                                                                         *)
(* Probabilities (f64 in the source) are modelled as exact rationals,      *)
(* written <<numerator, denominator>>.  A panic (failed assert!, unwrap of *)
(* an Err, explicit panic!) is modelled as a distinguished outcome.        *)
(***************************************************************************)
EXTENDS Integers, Naturals, Sequences, FiniteSets, TLC

(***************************************************************************)
(* types.rs                                                                *)
(***************************************************************************)
T == 0
A == 1
RANKS == 0..9

Stand == "Stand"
Hit == "Hit"
Double == "Double"
Split == "Split"
Action == {Stand, Hit, Double, Split}

\* types::additive_value is imported by canonical_hand.rs but its body is not
\* part of the available sources.  It is the "additive value" of the data
\* model: 10 for T, 1 for A (the rank index of A is 1), n otherwise.  The
\* unit tests of canonical_hand.rs (Pair(5) + T = Hard3PlusCard(20)) fix its
\* value on the already-converted argument 10 to be 10.
additive_value(r) == IF r = T THEN 10 ELSE r

\* bj_helper.rs: the value a card adds to a total, ace counted as 1.
card_value(rank) == IF rank = T THEN 10 ELSE IF rank = A THEN 1 ELSE rank

(***************************************************************************)
(* Bounds of the model.                                                    *)
(***************************************************************************)
\* Longest card sequence folded into a CanonicalHand.
MaxCards == 4

\* Largest deck handed to the dealer-outcome solver.
MaxDealerDeck == 3

\* Most cards of one rank in a deck handed to the dealer-outcome solver.
MaxDealerCopies == 1

\* The starting decks of a played hand hold ranks 0..MaxPlayRank only.
MaxPlayRank == 2

\* The starting decks of a played hand hold at most MaxPlayCopies of a rank.
MaxPlayCopies == 2

\* The starting decks of a hand played for its result hold at most
\* MaxHandCopies cards of a rank and at most MaxHandDeck cards.
MaxHandCopies == 2
MaxHandDeck == 7

\* Played hands with several slots: a starting deck holds fives, tens and
\* aces, at most MaxSlotCopies of each of the first two, at most MaxSlotAces
\* aces, and at most MaxSlotDeck cards.
MaxSlotCopies == 5
MaxSlotAces == 3
MaxSlotDeck == 10

\* Played hands run to their end: a starting deck holds tens, aces, fives
\* and sixes, at most MaxLiveCopies of each, and at most MaxLiveDeck cards.
MaxLiveCopies == 2
MaxLiveDeck == 7

\* Played hands whose decisions are walked through a split in the solver: a
\* starting deck holds aces, fives and eights, at most MaxSolveCopies of
\* each, and at most MaxSolveDeck cards.
MaxSolveCopies == 3
MaxSolveDeck == 7

\* The values the calls made by ev return are the multiples of 1/MaxEvDen
\* between -1 and 1.
MaxEvDen == 1

\* Longest hand looked up in the basic-strategy chart.
MaxChartHand == 3

\* Longest action list of a chart cell.
MaxCellLen == 2

\* Upcards of the chart columns looked up are 0..MaxChartUpcard.
MaxChartUpcard == 0

\* Largest target total handed to the dealer-outcome solver (targets start
\* at 16, the target all_dealer_probabilities uses for the bust probability).
MaxTarget == 22

(***************************************************************************)
(* hand.rs: Hand, an ordered sequence of ranks.                            *)
(***************************************************************************)
RECURSIVE SumValues(_)
SumValues(cards) ==
    IF cards = <<>> THEN 0
    ELSE card_value(Head(cards)) + SumValues(Tail(cards))

ContainsAce(cards) == \E i \in 1..Len(cards) : cards[i] = A

\* Hand::_total_internal: <<total, is_soft>>.
Hand_total_internal(cards) ==
    LET total == SumValues(cards)
    IN  IF ContainsAce(cards) /\ total <= 11
        THEN <<total + 10, TRUE>>
        ELSE <<total, FALSE>>

Hand_total(cards) == Hand_total_internal(cards)[1]

Hand_is_soft(cards) == Hand_total_internal(cards)[2]

\* Hand::is_pair: Some(rank) is <<rank>>, None is <<>>.
Hand_is_pair(cards) ==
    IF Len(cards) = 2 /\ cards[1] = cards[2] THEN <<cards[1]>> ELSE <<>>

(***************************************************************************)
(* hand/canonical_hand.rs: CanonicalHand.                                  *)
(* A value is [tag, v]; v is the payload (0 for the payload-free variants).*)
(***************************************************************************)
Empty == [tag |-> "Empty", v |-> 0]
Single(r) == [tag |-> "Single", v |-> r]
Hard2Card(n) == [tag |-> "Hard2Card", v |-> n]
Hard3PlusCard(n) == [tag |-> "Hard3PlusCard", v |-> n]
Soft2Card(n) == [tag |-> "Soft2Card", v |-> n]
Soft3PlusCard(n) == [tag |-> "Soft3PlusCard", v |-> n]
Pair(r) == [tag |-> "Pair", v |-> r]
Blackjack == [tag |-> "Blackjack", v |-> 0]
Busted == [tag |-> "Busted", v |-> 0]

\* The arm  Single(lhs) => match (lhs, rhs) { ... }.
add_Single(lhs, rhs) ==
    IF (lhs = A /\ rhs = T) \/ (lhs = T /\ rhs = A) THEN Blackjack
    ELSE IF lhs = rhs THEN Pair(lhs)
    ELSE IF lhs = A THEN Soft2Card(11 + rhs)
    ELSE IF rhs = A THEN Soft2Card(11 + lhs)
    ELSE Hard2Card(additive_value(lhs) + additive_value(rhs))

\* A plausible slip: the soft promotion also taken at a hard 11.
add_Hard_offbyone(prev, rhs) ==
    LET new_total == prev + additive_value(rhs)
    IN  IF rhs = A /\ prev <= 11 THEN Soft3PlusCard(new_total + 10)
        ELSE IF new_total <= 21 THEN Hard3PlusCard(new_total)
        ELSE Busted

\* The arm  Hard2Card(prev) | Hard3PlusCard(prev) => { ... }.
add_Hard(prev, rhs) ==
    LET new_total == prev + additive_value(rhs)
    IN  IF rhs = A /\ prev < 11 THEN Soft3PlusCard(new_total + 10)
        ELSE IF new_total <= 21 THEN Hard3PlusCard(new_total)
        ELSE Busted

\* A plausible slip: a soft hand that overflows is declared busted.
add_Soft_nodemote(prev, rhs) ==
    LET new_total == prev + additive_value(rhs)
    IN  IF new_total <= 21 THEN Soft3PlusCard(new_total)
        ELSE Busted

\* The arm  Soft2Card(prev) | Soft3PlusCard(prev) => { ... }.
add_Soft(prev, rhs) ==
    LET new_total == prev + additive_value(rhs)
    IN  IF new_total <= 21 THEN Soft3PlusCard(new_total)
        ELSE Hard3PlusCard(new_total - 10)

\* The arm  Pair(prevPaired) => match (prevPaired, rhs) { ... }.  The code
\* adds additive_value(n), a value, where a Rank is expected.
add_Pair(prevPaired, rhs) ==
    IF prevPaired = A /\ rhs = T THEN Hard3PlusCard(12)
    ELSE IF prevPaired = A THEN add_Soft(12, additive_value(rhs))
    ELSE add_Hard(additive_value(prevPaired) * 2, additive_value(rhs))

\* impl ops::Add<Rank> for CanonicalHand.
CanonicalHand_add(self, rhs) ==
    CASE self.tag = "Empty" -> Single(rhs)
      [] self.tag = "Single" -> add_Single(self.v, rhs)
      [] self.tag \in {"Hard2Card", "Hard3PlusCard"} -> add_Hard(self.v, rhs)
      [] self.tag \in {"Soft2Card", "Soft3PlusCard"} -> add_Soft(self.v, rhs)
      [] self.tag = "Pair" -> add_Pair(self.v, rhs)
      [] self.tag = "Blackjack" -> add_Soft(21, rhs)
      [] self.tag = "Busted" -> Busted

\* CanonicalHand::from_cards: fold of + over the cards, from Empty.
RECURSIVE FoldFrom(_, _)
FoldFrom(c, cards) ==
    IF cards = <<>> THEN c
    ELSE FoldFrom(CanonicalHand_add(c, Head(cards)), Tail(cards))

CanonicalHand_from_cards(cards) == FoldFrom(Empty, cards)

\* total() panics on Busted; the panic is the value TotalPanics.
TotalPanics == "panic"

\* CanonicalHand::total.  Single(r) => *r and Pair(r) => 2 * r use the rank
\* index itself (T = 0, A = 1), not its additive value.
CanonicalHand_total(self) ==
    CASE self.tag = "Empty" -> 0
      [] self.tag = "Single" -> self.v
      [] self.tag \in {"Hard2Card", "Hard3PlusCard", "Soft2Card", "Soft3PlusCard"}
            -> self.v
      [] self.tag = "Pair" -> 2 * self.v
      [] self.tag = "Blackjack" -> 21
      [] self.tag = "Busted" -> TotalPanics

(***************************************************************************)
(* Exact rationals <<numerator, denominator>>, denominator > 0, standing   *)
(* for the f64 values of the solvers.                                      *)
(***************************************************************************)
RECURSIVE Gcd(_, _)
Gcd(a, b) == IF b = 0 THEN a ELSE Gcd(b, a % b)

Abs(x) == IF x < 0 THEN -x ELSE x

Rat(n, d) ==
    LET g == Gcd(Abs(n), d)
    IN  IF n = 0 THEN <<0, 1>> ELSE <<n \div g, d \div g>>

Zero == <<0, 1>>
One == <<1, 1>>

\* The operands are bound to names, so that each is computed once.
RAdd(x, y) ==
    CHOOSE sum \in {Rat(a[1] * b[2] + b[1] * a[2], a[2] * b[2]) :
                       a \in {x}, b \in {y}} : TRUE
RSub(x, y) ==
    CHOOSE difference \in {Rat(a[1] * b[2] - b[1] * a[2], a[2] * b[2]) :
                              a \in {x}, b \in {y}} : TRUE
RMul(x, y) ==
    CHOOSE product \in {Rat(a[1] * b[1], a[2] * b[2]) :
                           a \in {x}, b \in {y}} : TRUE
RLess(x, y) == x[1] * y[2] < y[1] * x[2]
RIsPositive(x) == x[1] > 0

(***************************************************************************)
(* deck.rs: Deck, the count of cards of each rank.  Counts are u32; the    *)
(* model keeps them as integers, so that a decrement of a zero count (an   *)
(* arithmetic underflow in the source) shows as a negative count.          *)
(***************************************************************************)
RECURSIVE SumCounts(_, _)
SumCounts(deck, r) ==
    IF r > 9 THEN 0 ELSE deck[r] + SumCounts(deck, r + 1)

Deck_len(deck) == SumCounts(deck, 0)

Deck_added(deck, rank) == [deck EXCEPT ![rank] = @ + 1]

Deck_removed(deck, rank) == [deck EXCEPT ![rank] = @ - 1]

\* A plausible slip: a uniform sample over the ranks, whatever their counts.
random_card_choices_uniform(deck) == RANKS

\* Deck::random_card: WeightedIndex samples an index of positive weight;
\* WeightedIndex::new fails when all weights are zero and unwrap() panics.
random_card_choices(deck) == {r \in RANKS : deck[r] > 0}

\* n successive Deck::draw calls: the cards drawn and the deck left, or the
\* panic of the first draw from an empty deck.
RECURSIVE Deck_draws(_, _)
Deck_draws(deck, n) ==
    IF n = 0 THEN {[cards |-> <<>>, deck |-> deck, panicked |-> FALSE]}
    ELSE IF random_card_choices(deck) = {}
    THEN {[cards |-> <<>>, deck |-> deck, panicked |-> TRUE]}
    ELSE UNION {{[cards |-> <<card>> \o rest.cards, deck |-> rest.deck,
                  panicked |-> rest.panicked] :
                    rest \in Deck_draws(Deck_removed(deck, card), n - 1)} :
                card \in random_card_choices(deck)}

(***************************************************************************)
(* rules.rs: BlackjackRules and the two presets.                           *)
(***************************************************************************)
RULES_1D_H17_NDAS_D10 ==
    [decks |-> 1, hit_soft_17 |-> TRUE,
     split_hands_limit |-> 4, split_aces_limit |-> 2,
     double_any_hands |-> FALSE, double_hard_hands_thru_11 |-> 10,
     double_after_split |-> FALSE, hit_split_aces |-> FALSE,
     blackjack_multiplier |-> <<3, 2>>]

RULES_6D_H17_DAS_DANY ==
    [decks |-> 6, hit_soft_17 |-> TRUE,
     split_hands_limit |-> 4, split_aces_limit |-> 2,
     double_any_hands |-> TRUE, double_hard_hands_thru_11 |-> 10,
     double_after_split |-> TRUE, hit_split_aces |-> FALSE,
     blackjack_multiplier |-> <<3, 2>>]

(***************************************************************************)
(* perfect_strategy/hashed_hand.rs: HashedDealerHand.                      *)
(***************************************************************************)
HashedDealerHand_from_single_card(rank) ==
    [total |-> IF rank = T THEN 10 ELSE IF rank = A THEN 11 ELSE rank,
     is_one |-> TRUE,
     is_soft |-> (rank = A)]

\* impl ops::Add<Rank> for HashedDealerHand, with every added ace promoted.
HashedDealerHand_add_promotes_every_ace(self, rhs) ==
    LET t1 == self.total + (IF rhs = T THEN 10 ELSE IF rhs = A THEN 1 ELSE rhs)
        demote == t1 > 21 /\ self.is_soft
        t2 == IF demote THEN t1 - 10 ELSE t1
        soft2 == IF demote THEN FALSE ELSE self.is_soft
        promote == rhs = A
    IN  [total |-> IF promote THEN t2 + 10 ELSE t2,
         is_soft |-> IF promote THEN TRUE ELSE soft2,
         is_one |-> FALSE]

\* impl ops::Add<Rank> for HashedDealerHand.
HashedDealerHand_add(self, rhs) ==
    LET t1 == self.total + (IF rhs = T THEN 10 ELSE IF rhs = A THEN 1 ELSE rhs)
        demote == t1 > 21 /\ self.is_soft
        t2 == IF demote THEN t1 - 10 ELSE t1
        soft2 == IF demote THEN FALSE ELSE self.is_soft
        promote == rhs = A /\ t2 <= 11
    IN  [total |-> IF promote THEN t2 + 10 ELSE t2,
         is_soft |-> IF promote THEN TRUE ELSE soft2,
         is_one |-> FALSE]

\* The summary the dealer solver holds after the cards of a non-empty
\* sequence: from_single_card of the upcard at the outermost call, then
\* dealer_hand + next_card at each recursive call.
RECURSIVE HashedDealerHand_after(_, _)
HashedDealerHand_after(dealer_hand, next_cards) ==
    IF next_cards = <<>> THEN dealer_hand
    ELSE HashedDealerHand_after(HashedDealerHand_add(dealer_hand, Head(next_cards)),
                                Tail(next_cards))

HashedDealerHand_of_cards(cs) ==
    HashedDealerHand_after(HashedDealerHand_from_single_card(Head(cs)), Tail(cs))

(***************************************************************************)
(* perfect_strategy.rs: p_next_card_is_each.                               *)
(***************************************************************************)
total_next_card_possibilities(deck, can_be_ten, can_be_ace) ==
    Deck_len(deck) - (IF ~can_be_ten THEN deck[T] ELSE 0)
                   - (IF ~can_be_ace THEN deck[A] ELSE 0)

\* The vector p filled by the loop over RANKS.
next_card_p(deck, can_be_ten, can_be_ace) ==
    [next_card \in RANKS |->
        IF \/ deck[next_card] = 0
           \/ (~can_be_ten /\ next_card = T)
           \/ (~can_be_ace /\ next_card = A)
        THEN Zero
        ELSE Rat(deck[next_card],
                 total_next_card_possibilities(deck, can_be_ten, can_be_ace))]

\* RankArray::sum.
RECURSIVE SumP(_, _)
SumP(p, r) == IF r > 9 THEN Zero ELSE RAdd(p[r], SumP(p, r + 1))

RankArray_sum(p) == SumP(p, 0)

\* assert!(total_p > 0.99999f64); assert!(total_p < 1.00001f64);
total_p_in_range(p) ==
    /\ RLess(<<99999, 100000>>, RankArray_sum(p))
    /\ RLess(RankArray_sum(p), <<100001, 100000>>)

\* p_next_card_is_each: the vector p, and whether one of the two range
\* assertions failed (the call then panics and returns nothing).
p_next_card_is_each(deck, can_be_ten, can_be_ace) ==
    LET p == next_card_p(deck, can_be_ten, can_be_ace)
    IN  [p |-> p, panicked |-> ~total_p_in_range(p)]

(***************************************************************************)
(* perfect_strategy.rs: dealer_probabilities_beating, one call.            *)
(***************************************************************************)
\* A plausible slip: the soft-17 rule applied to every 17.
dealer_finished_hits_all_17(dealer_hand, r) ==
    \/ dealer_hand.total >= 18
    \/ (dealer_hand.total >= 17 /\ ~r.hit_soft_17)

\* The base-case condition: the dealer is finished playing.
dealer_finished(dealer_hand, r) ==
    \/ dealer_hand.total >= 18
    \/ (dealer_hand.total >= 17 /\ (~r.hit_soft_17 \/ ~dealer_hand.is_soft))

\* The value returned in the base case, <<p_dealer_win, p_push>>.
dealer_base_value(player_hand_to_beat, dealer_hand) ==
    IF player_hand_to_beat > 21 THEN <<One, Zero>>
    ELSE IF dealer_hand.total > 21 THEN <<Zero, Zero>>
    ELSE IF dealer_hand.total > player_hand_to_beat THEN <<One, Zero>>
    ELSE IF dealer_hand.total = player_hand_to_beat THEN <<Zero, One>>
    ELSE <<Zero, Zero>>

next_can_be_ten(dealer_hand) == ~(dealer_hand.is_one /\ dealer_hand.total = 11)

\* A plausible slip: the ace is never excluded.
next_can_be_ace_always(dealer_hand) == TRUE

next_can_be_ace(dealer_hand) == ~(dealer_hand.is_one /\ dealer_hand.total = 10)

\* The distribution the recursive case computes.
dealer_p_next_card_is(dealer_hand, deck) ==
    p_next_card_is_each(deck, next_can_be_ten(dealer_hand),
                        next_can_be_ace(dealer_hand))

\* The ranks the loop of the recursive case recurses on.
dealer_next_cards(dealer_hand, deck) ==
    LET res == dealer_p_next_card_is(dealer_hand, deck)
    IN  IF res.panicked THEN {}
        ELSE {next_card \in RANKS : RIsPositive(res.p[next_card])}

(***************************************************************************)
(* bj_helper.rs / complex_strategy.rs: the dealer-outcome solver behind    *)
(* all_dealer_probabilities.  HIT_SOFT_17 of that revision is the          *)
(* hit_soft_17 field of the rules.                                         *)
(***************************************************************************)
\* PartialDealerHand::single: the total of a single ace is card_value(A) = 1.
PartialDealerHand_single(rank) ==
    [total |-> card_value(rank),
     is_one |-> TRUE,
     is_soft |-> (rank = A)]

\* impl ops::Add<Rank> for PartialDealerHand.
PartialDealerHand_add(self, rhs) ==
    LET t1 == self.total + card_value(rhs)
        demote == t1 > 21 /\ self.is_soft
        t2 == IF demote THEN t1 - 10 ELSE t1
        soft2 == IF demote THEN FALSE ELSE self.is_soft
        promote == rhs = A /\ t2 <= 11
    IN  [total |-> IF promote THEN t2 + 10 ELSE t2,
         is_soft |-> IF promote THEN TRUE ELSE soft2,
         is_one |-> FALSE]

\* possible_next_cards of one loop iteration.
possible_next_cards(dealer_hand, deck) ==
    Deck_len(deck)
      - (IF dealer_hand.is_one /\ dealer_hand.total = 10 THEN deck[A] ELSE 0)
      - (IF dealer_hand.is_one /\ dealer_hand.total = 11 THEN deck[T] ELSE 0)

\* The iterations of the loop that `continue`.
complex_skips(next_card, dealer_hand, deck) ==
    \/ deck[next_card] = 0
    \/ (dealer_hand.is_one /\ dealer_hand.total = 10 /\ next_card = A)
    \/ (dealer_hand.is_one /\ dealer_hand.total = 11 /\ next_card = T)

RECURSIVE complex_dealer_probabilities_beating(_, _, _, _)
RECURSIVE complex_dealer_loop(_, _, _, _, _)

\* The loop over RANKS from next_card on, accumulating cumul_probs.
complex_dealer_loop(next_card, player_hand_to_beat, dealer_hand, deck, r) ==
    IF next_card > 9 THEN <<Zero, Zero>>
    ELSE
      LET rest == complex_dealer_loop(next_card + 1, player_hand_to_beat,
                                      dealer_hand, deck, r)
      IN  IF complex_skips(next_card, dealer_hand, deck) THEN rest
          ELSE
            LET prob_of_this_card ==
                    Rat(deck[next_card], possible_next_cards(dealer_hand, deck))
                with_this_card ==
                    complex_dealer_probabilities_beating(
                        player_hand_to_beat,
                        PartialDealerHand_add(dealer_hand, next_card),
                        Deck_removed(deck, next_card), r)
            IN  <<RAdd(rest[1], RMul(with_this_card[1], prob_of_this_card)),
                  RAdd(rest[2], RMul(with_this_card[2], prob_of_this_card))>>

\* complex_strategy::dealer_probabilities_beating: <<p_win, p_push>>.
complex_dealer_probabilities_beating(player_hand_to_beat, dealer_hand, deck, r) ==
    IF dealer_finished(dealer_hand, r)
    THEN dealer_base_value(player_hand_to_beat, dealer_hand)
    ELSE complex_dealer_loop(0, player_hand_to_beat, dealer_hand, deck, r)

\* A plausible slip: the bust probability taken as the complement of
\* beating 17, which leaves out the dealer totals of exactly 17.
all_dealer_probabilities_from17(upcard, deck, r) ==
    LET beat(target) == complex_dealer_probabilities_beating(
                            target, PartialDealerHand_single(upcard), deck, r)
    IN  <<RSub(One, beat(17)[1]),
          beat(17)[2], beat(18)[2], beat(19)[2], beat(20)[2], beat(21)[2]>>

\* all_dealer_probabilities: [Bust, 17, 18, 19, 20, 21].
all_dealer_probabilities(upcard, deck, r) ==
    LET beat(target) == complex_dealer_probabilities_beating(
                            target, PartialDealerHand_single(upcard), deck, r)
    IN  <<RSub(One, beat(16)[1]),
          beat(17)[2], beat(18)[2], beat(19)[2], beat(20)[2], beat(21)[2]>>

(***************************************************************************)
(* basic_strategy.rs: the chart maps (BasicStrategyHand, upcard) to an     *)
(* ordered action list; a key without a row is outside its DOMAIN.         *)
(***************************************************************************)
BSHard(n) == [kind |-> "Hard", n |-> n]
BSSoft(n) == [kind |-> "Soft", n |-> n]
BSPair(r) == [kind |-> "Pair", n |-> r]

\* BasicStrategyHand::from_unsplittable.
BasicStrategyHand_from_unsplittable(hand) ==
    IF Hand_is_soft(hand) THEN BSSoft(Hand_total(hand))
    ELSE BSHard(Hand_total(hand))

\* BasicStrategyHand::from.
BasicStrategyHand_from(hand) ==
    IF Hand_is_pair(hand) # <<>> THEN BSPair(Hand_is_pair(hand)[1])
    ELSE BasicStrategyHand_from_unsplittable(hand)

BasicStrategyChartKey(bs_hand, upcard) == <<bs_hand, upcard>>

\* A plausible slip: the backup rows are never appended.
basic_plays_no_backup(chart, hand, dealer_up) ==
    LET key == BasicStrategyChartKey(BasicStrategyHand_from(hand), dealer_up)
    IN  IF key \notin DOMAIN chart
        THEN [panicked |-> TRUE, actions |-> <<>>]
        ELSE [panicked |-> FALSE, actions |-> chart[key]]

\* BasicStrategyChart::basic_plays: the action list, or the panic
\* "No actions found for the hand".
basic_plays(chart, hand, dealer_up) ==
    LET key == BasicStrategyChartKey(BasicStrategyHand_from(hand), dealer_up)
        key2 == BasicStrategyChartKey(BasicStrategyHand_from_unsplittable(hand),
                                      dealer_up)
    IN  IF key \notin DOMAIN chart
        THEN [panicked |-> TRUE, actions |-> <<>>]
        ELSE IF chart[key][1] = Split /\ key2 \in DOMAIN chart
             THEN [panicked |-> FALSE, actions |-> chart[key] \o chart[key2]]
             ELSE [panicked |-> FALSE, actions |-> chart[key]]

\* A plausible slip: the card count is not part of the double condition.
can_double_any_length(r, hand, num_hands) ==
    /\ (r.double_after_split \/ num_hands = 1)
    /\ (r.double_any_hands
          \/ (Hand_total(hand) >= r.double_hard_hands_thru_11
                /\ Hand_total(hand) <= 11))

\* context_basic_play: can_double.
can_double(r, hand, num_hands) ==
    /\ Len(hand) = 2
    /\ (r.double_after_split \/ num_hands = 1)
    /\ (r.double_any_hands
          \/ (Hand_total(hand) >= r.double_hard_hands_thru_11
                /\ Hand_total(hand) <= 11))

\* context_basic_play: is_splittable_pair.
is_splittable_pair(r, hand, num_hands) ==
    num_hands < (IF Hand_is_pair(hand) = <<A>> THEN r.split_aces_limit
                 ELSE IF Hand_is_pair(hand) # <<>> THEN r.split_hands_limit
                 ELSE 1)

\* The filter closure of context_basic_play.
context_allows(r, hand, num_hands, a) ==
    IF a = Double THEN can_double(r, hand, num_hands)
    ELSE IF a = Split THEN is_splittable_pair(r, hand, num_hands)
    ELSE TRUE

\* BasicStrategyChart::context_basic_play: the action, or a panic (of
\* basic_plays, or "Couldn't find an allowed action for the hand").
context_basic_play(r, chart, hand, dealer_up, num_hands) ==
    LET action_list == basic_plays(chart, hand, dealer_up)
        allowed == {i \in 1..Len(action_list.actions) :
                       context_allows(r, hand, num_hands, action_list.actions[i])}
    IN  IF action_list.panicked \/ allowed = {}
        THEN [panicked |-> TRUE, action |-> Stand]
        ELSE [panicked |-> FALSE,
              action |-> action_list.actions[
                             CHOOSE i \in allowed : \A j \in allowed : i <= j]]

(***************************************************************************)
(* perfect_strategy.rs: ev, ev_hit, ev_split (the parts that pick the      *)
(* calls made and their decks).                                            *)
(***************************************************************************)
\* assert!(allowed_actions[Action::Split] ^ (splits_allowed == 0)).
ev_assertion(allowed_actions, splits_allowed) ==
    (Split \in allowed_actions) # (splits_allowed = 0)

\* The ranks the loops of ev_hit and ev_split do not skip.
ev_next_cards(deck) ==
    LET res == p_next_card_is_each(deck, TRUE, TRUE)
    IN  IF res.panicked THEN {}
        ELSE {next_card \in RANKS : RIsPositive(res.p[next_card])}

\* ev_split: can_act_after.
can_act_after(r, split_card) == r.hit_split_aces \/ split_card # A

\* ev_split: actions_allowed_after for a new second card.
split_actions_allowed_after(r, split_card, splits_allowed, new_second_card) ==
    {Stand}
      \cup (IF can_act_after(r, split_card) THEN {Hit} ELSE {})
      \cup (IF splits_allowed > 1 /\ new_second_card = split_card
            THEN {Split} ELSE {})

\* A plausible slip: the count goes down whatever the new second card is.
splits_allowed_after_every_card(split_card, splits_allowed, new_second_card) ==
    splits_allowed - 1

\* ev_split: splits_allowed_after.
splits_allowed_after(split_card, splits_allowed, new_second_card) ==
    IF splits_allowed > 1 /\ new_second_card = split_card
    THEN splits_allowed - 1 ELSE 0

(***************************************************************************)
(* perfect_strategy.rs: ev, the EvCalcResult it returns.  f64 values are   *)
(* exact rationals; f64::NEG_INFINITY is <<-1, 0>>, below every rational   *)
(* under the cross-multiplied order.                                       *)
(***************************************************************************)
NEG_INFINITY == <<-1, 0>>

\* a > b on the f64 values of the solver.
f64_gt(a, b) == RLess(b, a)

\* The iteration order of EnumMap<Action, _>: the declaration order.
ActionOrder == <<Stand, Hit, Double, Split>>

\* A plausible slip: the choices array starts from 0, not from -infinity.
ev_choices_from_zero(allowed_actions, returned) ==
    [a \in Action |-> IF a \in allowed_actions THEN returned[a] ELSE Zero]

\* ev, lines 79-97: the choices array, given what the calls of ev_stand,
\* ev_hit, ev_double and ev_split return.
ev_choices(allowed_actions, returned) ==
    [a \in Action |-> IF a \in allowed_actions THEN returned[a]
                      ELSE NEG_INFINITY]

\* ev, lines 100-105: the loop that keeps the choice of maximal EV, from
\* position i of the iteration on.
RECURSIVE max_ev_choice(_, _, _)
max_ev_choice(choices, i, max_so_far) ==
    IF i > Len(ActionOrder) THEN max_so_far
    ELSE max_ev_choice(choices, i + 1,
             IF f64_gt(choices[ActionOrder[i]], choices[max_so_far])
             THEN ActionOrder[i] ELSE max_so_far)

\* The EvCalcResult of ev once its assertion has passed.
ev_result(allowed_actions, player_hand, returned) ==
    IF player_hand = Busted
    THEN [ev |-> <<-1, 1>>, action |-> Stand,
          choices |-> [a \in Action |-> IF a = Stand THEN <<-1, 1>>
                                        ELSE NEG_INFINITY]]
    ELSE LET choices == ev_choices(allowed_actions, returned)
             best == max_ev_choice(choices, 1, Stand)
         IN  [ev |-> choices[best], action |-> best, choices |-> choices]

(***************************************************************************)
(* perfect_strategy.rs: the values ev_hit, ev_double and ev_split return,  *)
(* given what the call made for each next card returned.                   *)
(***************************************************************************)
\* The loop over RANKS of ev_hit and ev_split, from rank r on: cumul_ev.
RECURSIVE cumul_ev_loop(_, _, _, _)
cumul_ev_loop(p_next_card_is, returned, r, cumul_ev) ==
    IF r > 9 THEN cumul_ev
    ELSE cumul_ev_loop(p_next_card_is, returned, r + 1,
             IF ~RIsPositive(p_next_card_is[r]) THEN cumul_ev
             ELSE RAdd(cumul_ev, RMul(p_next_card_is[r], returned[r])))

\* ev_hit, for a deck on which p_next_card_is_each does not panic.
ev_hit_value(player_hand, deck, returned) ==
    IF player_hand = Busted THEN <<-1, 1>>
    ELSE cumul_ev_loop(p_next_card_is_each(deck, TRUE, TRUE).p, returned, 0,
                       Zero)

\* A plausible slip: the doubled bet is left out.
ev_double_value_single_bet(player_hand, deck, returned) ==
    ev_hit_value(player_hand, deck, returned)

\* ev_double: 2f64 * ev_hit(player_hand, upcard, deck, false).
ev_double_value(player_hand, deck, returned) ==
    RMul(<<2, 1>>, ev_hit_value(player_hand, deck, returned))

\* A plausible slip: the EV of one of the two hands only.
ev_split_value_one_hand(deck, returned) ==
    cumul_ev_loop(p_next_card_is_each(deck, TRUE, TRUE).p, returned, 0, Zero)

\* ev_split: cumul_ev * 2f64.
ev_split_value(deck, returned) ==
    RMul(cumul_ev_loop(p_next_card_is_each(deck, TRUE, TRUE).p, returned, 0,
                       Zero),
         <<2, 1>>)

(***************************************************************************)
(* simulation.rs: play_hand.                                               *)
(***************************************************************************)
\* u32 subtraction.  A difference below zero wraps to a value near 2^32
\* (release build); the model holds it as the largest integer TLC has, the
\* callers only compare it with 0 and 1.
sub_u32(a, b) == IF a >= b THEN a - b ELSE 2147483647

\* A plausible slip: one limit for every pair.
play_splits_allowed_one_limit(r, current_hand, num_hands) ==
    IF Hand_is_pair(current_hand) # <<>>
    THEN sub_u32(r.split_hands_limit, num_hands)
    ELSE 0

\* play_hand: splits_allowed of the decision.
play_splits_allowed(r, current_hand, num_hands) ==
    IF Hand_is_pair(current_hand) = <<A>>
    THEN sub_u32(r.split_aces_limit, num_hands)
    ELSE IF Hand_is_pair(current_hand) # <<>>
    THEN sub_u32(r.split_hands_limit, num_hands)
    ELSE 0

\* A plausible slip: doubling allowed on any number of hands.
play_allowed_actions_always_das(r, current_hand, num_hands) ==
    {Stand, Hit}
      \cup (IF Len(current_hand) = 2
               /\ (r.double_any_hands
                     \/ (Hand_total(current_hand) >= r.double_hard_hands_thru_11
                           /\ Hand_total(current_hand) <= 11))
            THEN {Double} ELSE {})
      \cup (IF play_splits_allowed(r, current_hand, num_hands) > 0
            THEN {Split} ELSE {})

\* play_hand: allowed_actions of the decision, as the set of allowed actions.
play_allowed_actions(r, current_hand, num_hands) ==
    {Stand, Hit}
      \cup (IF Len(current_hand) = 2
               /\ (r.double_after_split \/ num_hands = 1)
               /\ (r.double_any_hands
                     \/ (Hand_total(current_hand) >= r.double_hard_hands_thru_11
                           /\ Hand_total(current_hand) <= 11))
            THEN {Double} ELSE {})
      \cup (IF play_splits_allowed(r, current_hand, num_hands) > 0
            THEN {Split} ELSE {})

\* A plausible slip: the dealer stands on every 17.
play_dealer_stops_on_every_17(r, dealer_hand) == Hand_total(dealer_hand) >= 17

\* A plausible slip: the dealer stops above 21 only.
play_dealer_stops_when_busted(r, dealer_hand) == Hand_total(dealer_hand) > 21

\* play_hand: the dealer stops drawing.
play_dealer_stops(r, dealer_hand) ==
    \/ Hand_total(dealer_hand) >= 18
    \/ (Hand_total(dealer_hand) >= 17
          /\ (~r.hit_soft_17 \/ ~Hand_is_soft(dealer_hand)))

\* A plausible slip: the draw pile is handed over as it is.
deck_plus_down_card_left_out(deck, dealer_hand) == deck

\* play_hand: deck_plus_down_card = deck.added(dealer_hand[1]).
deck_plus_down_card(deck, dealer_hand) == Deck_added(deck, dealer_hand[2])

\* perfect_insure: <<insurance is a +EV move, its EV>>, or the panic of
\* p_next_card_is_each.
perfect_insure(deck) ==
    LET res == p_next_card_is_each(deck, TRUE, TRUE)
        p_insurance_win == res.p[T]
        p_insurance_lose == RSub(One, p_insurance_win)
        ev == RSub(p_insurance_win, RMul(<<1, 2>>, p_insurance_lose))
    IN  [panicked |-> res.panicked, choice |-> RIsPositive(ev), ev |-> ev]

\* A plausible slip: insurance taken on a non-negative EV.
take_insurance_on_zero_ev(method, dealer_hand, deck) ==
    /\ dealer_hand[1] = A
    /\ method \in {"PerfectStrategy", "BasicPerfectComparison"}
    /\ ~RLess(perfect_insure(deck_plus_down_card(deck, dealer_hand)).ev, Zero)

\* play_hand: take_insurance.
take_insurance(method, dealer_hand, deck) ==
    /\ dealer_hand[1] = A
    /\ method \in {"PerfectStrategy", "BasicPerfectComparison"}
    /\ perfect_insure(deck_plus_down_card(deck, dealer_hand)).choice

\* A plausible slip: a lost insurance bet costs a whole unit.
insurance_roi_whole_unit(take, down_card) ==
    IF take /\ down_card = T THEN One
    ELSE IF take THEN <<-1, 1>>
    ELSE Zero

\* play_hand: what resolving the insurance bet adds to roi.
insurance_roi(take, down_card) ==
    IF take /\ down_card = T THEN One
    ELSE IF take THEN <<-1, 2>>
    ELSE Zero

\* A plausible slip: a player blackjack paid even money.
naturals_roi_even_money(r, dealer_total, player_total) ==
    IF dealer_total = 21 /\ player_total = 21 THEN Zero
    ELSE IF dealer_total = 21 THEN <<-1, 1>>
    ELSE One

\* play_hand: what the match on dealt blackjacks adds to roi.
naturals_roi(r, dealer_total, player_total) ==
    IF dealer_total = 21 /\ player_total = 21 THEN Zero
    ELSE IF dealer_total = 21 THEN <<-1, 1>>
    ELSE r.blackjack_multiplier

\* A plausible slip: a dealer bust scores 0, like a player bust.
play_dealer_score_bust_zero(dealer_hand) ==
    IF Hand_total(dealer_hand) > 21 THEN 0 ELSE Hand_total(dealer_hand)

\* play_hand: the score of the dealer (a bust scores 1).
play_dealer_score(dealer_hand) ==
    IF Hand_total(dealer_hand) > 21 THEN 1 ELSE Hand_total(dealer_hand)

\* play_hand: the score of a player hand (a bust scores 0).
play_hand_score(hand) == IF Hand_total(hand) > 21 THEN 0 ELSE Hand_total(hand)

\* A plausible slip: every slot counts one unit in bet_units_placed.
play_winnings_counting_slots(result, hands, bets, dealer_hand, i) ==
    LET dealer_score == play_dealer_score(dealer_hand)
        summed[k \in (i - 1)..Len(hands)] ==
            IF k < i THEN result
            ELSE [summed[k - 1] EXCEPT
                    !.bet_units_placed = @ + 1,
                    !.roi = IF play_hand_score(hands[k]) > dealer_score
                            THEN RAdd(@, <<bets[k], 1>>)
                            ELSE IF play_hand_score(hands[k]) < dealer_score
                            THEN RSub(@, <<bets[k], 1>>)
                            ELSE @]
    IN  IF i > Len(hands) THEN result ELSE summed[Len(hands)]

\* play_hand: the loop summing up the winnings, from slot i on.
RECURSIVE play_winnings(_, _, _, _, _)
play_winnings(result, hands, bets, dealer_hand, i) ==
    IF i > Len(hands) THEN result
    ELSE LET hand_score == play_hand_score(hands[i])
             dealer_score == play_dealer_score(dealer_hand)
             bet == <<bets[i], 1>>
         IN  play_winnings(
               [result EXCEPT
                  !.bet_units_placed = @ + bets[i],
                  !.roi = IF hand_score > dealer_score THEN RAdd(@, bet)
                          ELSE IF hand_score < dealer_score THEN RSub(@, bet)
                          ELSE @],
               hands, bets, dealer_hand, i + 1)

(***************************************************************************)
(* State.                                                                  *)
(***************************************************************************)
VARIABLES
    rules,      \* the RULES constant of the build
    cards,      \* hand.rs Hand.cards of the hand being canonicalized
    canon,      \* the CanonicalHand accumulated by the fold over cards
    d_pc,       \* dealer solver: position ("idle", "start", "call", "ret",
                \*   "panic", "adp")
    d_upcard,   \* dealer solver: the upcard the outermost call started from
    d_target,   \* dealer_probabilities_beating: player_hand_to_beat
    d_hand,     \* dealer_probabilities_beating: dealer_hand
    d_deck,     \* dealer_probabilities_beating: deck
    d_ret,      \* the value returned by a base case
    d_adp,      \* the array returned by all_dealer_probabilities
    c_pc,       \* chart lookup: position ("idle", "start", "plays", "play")
    c_chart,    \* BasicStrategyChart.chart (the rows the lookup can reach)
    c_hand,     \* chart lookup: hand
    c_upcard,   \* chart lookup: dealer_up
    c_num_hands,\* context_basic_play: num_hands
    c_plays,    \* result of basic_plays
    c_play,     \* result of context_basic_play
    p_pc,       \* play_hand: position ("idle", "start", "dealt", "decide",
                \*   "dealer", "done", "panic")
    p_deck,     \* play_hand: *deck
    p_dealer,   \* play_hand: dealer_hand
    p_hands,    \* play_hand: player_hands
    p_idx,      \* play_hand: hand_idx (1-based)
    p_all,      \* play_hand: can_act_again_at_all
    p_method,   \* play_hand: player_decision_method
    p_bets,     \* play_hand: bet_units
    p_result,   \* play_hand: result (the SimulationResult)
    p_insure_deck, \* the deck handed to perfect_insure (NoDeck: not called)
    e_pc,       \* ev solver: position ("idle", "ev", "ev_stand", "ev_hit",
                \*   "ev_split", "dealer", "ret", "panic")
    e_allowed,  \* ev: allowed_actions (the set of allowed actions)
    e_hand,     \* ev / ev_stand / ev_hit / ev_split: player_hand
    e_splits,   \* ev / ev_split: splits_allowed
    e_deck,     \* ev / ev_stand / ev_hit / ev_split: deck
    e_again,    \* ev_hit: can_act_again
    e_result,   \* ev: the EvCalcResult returned
    e_returned, \* ev_hit / ev_split: what the call made for each next card
                \*   returned
    e_value     \* the f64 returned by ev_hit, ev_double or ev_split

canon_vars == <<cards, canon>>
dealer_vars == <<d_pc, d_upcard, d_target, d_hand, d_deck, d_ret, d_adp>>
chart_vars == <<c_pc, c_chart, c_hand, c_upcard, c_num_hands, c_plays, c_play>>
play_vars ==
    <<p_pc, p_deck, p_dealer, p_hands, p_idx, p_all, p_method, p_bets, p_result,
      p_insure_deck>>
ev_vars ==
    <<e_pc, e_allowed, e_hand, e_splits, e_deck, e_again, e_result, e_returned,
      e_value>>
vars == <<rules, canon_vars, dealer_vars, chart_vars, play_vars, ev_vars>>

\* The decks with exactly n cards.
RECURSIVE DecksOfLen(_)
DecksOfLen(n) ==
    IF n = 0 THEN {[r \in RANKS |-> 0]}
    ELSE {Deck_added(d, r) : d \in DecksOfLen(n - 1), r \in RANKS}

\* The non-empty decks with at most n cards.
DecksUpTo(n) == UNION {DecksOfLen(k) : k \in 1..n}

NoHand == [total |-> 0, is_soft |-> FALSE, is_one |-> FALSE]
NoDeck == [r \in RANKS |-> 0]
NoValue == <<Zero, Zero>>

(***************************************************************************)
(* Canonicalization: cards are appended one at a time, the accumulator of  *)
(* from_cards's fold follows.                                              *)
(***************************************************************************)
CanonIdle == cards = <<>> /\ canon = Empty

DealerIdle ==
    /\ d_pc = "idle"
    /\ d_upcard = 0
    /\ d_target = 0
    /\ d_hand = NoHand
    /\ d_deck = NoDeck
    /\ d_ret = NoValue
    /\ d_adp = <<>>

\* SimulationResult::default().
SimulationResult_default ==
    [shoes_played |-> 0, hands_started |-> 0, bet_units_placed |-> 0,
     decisions_made |-> 0, insurances_offered |-> 0, insurances_taken |-> 0,
     insurances_won |-> 0, roi |-> Zero]

\* PlayerDecisionMethod.
BasicStrategy == "BasicStrategy"
CompositionStrategy == "CompositionStrategy"
PerfectStrategy == "PerfectStrategy"
BasicPerfectComparison == "BasicPerfectComparison"
PlayerDecisionMethod ==
    {BasicStrategy, CompositionStrategy, PerfectStrategy, BasicPerfectComparison}

PlayIdle ==
    /\ p_pc = "idle"
    /\ p_deck = NoDeck
    /\ p_dealer = <<>>
    /\ p_hands = <<>>
    /\ p_idx = 0
    /\ p_all = TRUE
    /\ p_method = PerfectStrategy
    /\ p_bets = <<>>
    /\ p_result = SimulationResult_default
    /\ p_insure_deck = NoDeck

NoResult == [ev |-> Zero, action |-> Stand, choices |-> [a \in Action |-> Zero]]
NoReturned == [r \in RANKS |-> Zero]

EvIdle ==
    /\ e_pc = "idle"
    /\ e_allowed = {}
    /\ e_hand = Empty
    /\ e_splits = 0
    /\ e_deck = NoDeck
    /\ e_again = FALSE
    /\ e_result = NoResult
    /\ e_returned = NoReturned
    /\ e_value = Zero

NoPlays == [panicked |-> FALSE, actions |-> <<>>]
NoPlay == [panicked |-> FALSE, action |-> Stand]

ChartIdle ==
    /\ c_pc = "idle"
    /\ c_chart = <<>>
    /\ c_hand = <<>>
    /\ c_upcard = 0
    /\ c_num_hands = 0
    /\ c_plays = NoPlays
    /\ c_play = NoPlay

\* One step of the fold in from_cards (hand += card in the simulator).
FoldCard(r) ==
    /\ Len(cards) < MaxCards
    /\ cards' = Append(cards, r)
    /\ canon' = CanonicalHand_add(canon, r)
    /\ UNCHANGED <<rules, dealer_vars, chart_vars, play_vars, ev_vars>>

InitCanon ==
    CanonIdle /\ DealerIdle /\ ChartIdle /\ PlayIdle /\ EvIdle /\ rules = RULES_6D_H17_DAS_DANY

NextCanon == \E r \in RANKS : FoldCard(r)

SpecCanon == InitCanon /\ [][NextCanon]_vars

(***************************************************************************)
(* The dealer-outcome solver, walked one call at a time: a state with      *)
(* d_pc = "call" is an invocation dealer_probabilities_beating(d_target,   *)
(* d_hand, d_deck); its successors are its return from the base case, the  *)
(* recursive calls of its loop, or the panic of p_next_card_is_each.       *)
(***************************************************************************)
\* The rule sets the dealer solver is built with: a preset, and the same
\* with the dealer standing on soft 17.
DealerRuleSets ==
    {RULES_6D_H17_DAS_DANY,
     [RULES_6D_H17_DAS_DANY EXCEPT !.hit_soft_17 = FALSE]}

\* The decks the solver is started on.
DealerDecks ==
    {d \in DecksUpTo(MaxDealerDeck) : \A r \in RANKS : d[r] <= MaxDealerCopies}

\* ev_stand: the outermost call, from the single upcard.
EvStandCallsDealer(target) ==
    /\ d_pc = "start"
    /\ d_pc' = "call"
    /\ d_target' = target
    /\ d_hand' = HashedDealerHand_from_single_card(d_upcard)
    /\ UNCHANGED <<d_upcard, d_deck, d_ret, d_adp, rules, canon_vars, chart_vars,
                   play_vars, ev_vars>>

\* Base case: the dealer is finished playing.
DealerBase ==
    /\ d_pc = "call"
    /\ dealer_finished(d_hand, rules)
    /\ d_pc' = "ret"
    /\ d_ret' = dealer_base_value(d_target, d_hand)
    /\ UNCHANGED <<d_upcard, d_target, d_hand, d_deck, d_adp, rules, canon_vars, chart_vars,
                   play_vars, ev_vars>>

\* Recursive case: one iteration of the loop that is not skipped.
DealerRecurse ==
    /\ d_pc = "call"
    /\ ~dealer_finished(d_hand, rules)
    /\ \E next_card \in dealer_next_cards(d_hand, d_deck) :
          /\ d_hand' = HashedDealerHand_add(d_hand, next_card)
          /\ d_deck' = Deck_removed(d_deck, next_card)
    /\ UNCHANGED <<d_pc, d_upcard, d_target, d_ret, d_adp, rules, canon_vars, chart_vars,
                   play_vars, ev_vars>>

\* Recursive case: p_next_card_is_each fails its range assertion.
DealerAssertFails ==
    /\ d_pc = "call"
    /\ ~dealer_finished(d_hand, rules)
    /\ dealer_p_next_card_is(d_hand, d_deck).panicked
    /\ d_pc' = "panic"
    /\ UNCHANGED <<d_upcard, d_target, d_hand, d_deck, d_ret, d_adp, rules, canon_vars, chart_vars,
                   play_vars, ev_vars>>

\* all_dealer_probabilities(upcard, deck).
AllDealerProbabilities ==
    /\ d_pc = "start"
    /\ d_pc' = "adp"
    /\ d_adp' = all_dealer_probabilities(d_upcard, d_deck, rules)
    /\ UNCHANGED <<d_upcard, d_target, d_hand, d_deck, d_ret, rules, canon_vars, chart_vars,
                   play_vars, ev_vars>>

InitDealer ==
    /\ CanonIdle
    /\ ChartIdle
    /\ PlayIdle
    /\ EvIdle
    /\ rules \in DealerRuleSets
    /\ d_pc = "start"
    /\ d_upcard \in RANKS
    /\ d_deck \in DealerDecks
    /\ d_target = 0
    /\ d_hand = NoHand
    /\ d_ret = NoValue
    /\ d_adp = <<>>

NextDealer ==
    \/ \E target \in 16..MaxTarget : EvStandCallsDealer(target)
    \/ DealerBase
    \/ DealerRecurse
    \/ DealerAssertFails
    \/ AllDealerProbabilities

SpecDealer == InitDealer /\ [][NextDealer]_vars

(***************************************************************************)
(* The basic-strategy chart lookups.  The chart is an input: its rows are  *)
(* drawn from the action lists a chart file can hold.  Hard and Soft rows  *)
(* never list Split (a hand that is not a pair has nothing to split).      *)
(***************************************************************************)
\* The non-empty sequences over S of length at most n.
SeqsUpTo(S, n) == UNION {[1..k -> S] : k \in 1..n}

\* The hands a decision is asked for: two cards or more, not busted.
RECURSIVE HandsOfLen(_)
HandsOfLen(n) ==
    IF n = 0 THEN {<<>>}
    ELSE {Append(h, r) : h \in {g \in HandsOfLen(n - 1) : SumValues(g) <= 20},
                         r \in RANKS}

ChartHands ==
    {h \in UNION {HandsOfLen(k) : k \in 2..MaxChartHand} : Hand_total(h) <= 21}

\* The cells a row of the given hand class can hold.
CellsOf(bs_hand) ==
    IF bs_hand.kind = "Pair" THEN SeqsUpTo(Action, MaxCellLen)
    ELSE SeqsUpTo({Stand, Hit, Double}, MaxCellLen)

\* The keys basic_plays can look up for a hand.
KeysOf(hand, upcard) ==
    {BasicStrategyChartKey(BasicStrategyHand_from(hand), upcard),
     BasicStrategyChartKey(BasicStrategyHand_from_unsplittable(hand), upcard)}

\* The charts restricted to those keys; a key may have no row.
ChartsOver(keys) ==
    UNION {{f \in [D -> SeqsUpTo(Action, MaxCellLen)] :
               \A k \in D : f[k] \in CellsOf(k[1])} : D \in SUBSET keys}

\* The rule sets the chart is built for: the two presets.
ChartRuleSets == {RULES_1D_H17_NDAS_D10, RULES_6D_H17_DAS_DANY}

\* chart.basic_plays(&hand, dealer_up).
BasicPlays ==
    /\ c_pc = "start"
    /\ c_pc' = "plays"
    /\ c_plays' = basic_plays(c_chart, c_hand, c_upcard)
    /\ UNCHANGED <<c_chart, c_hand, c_upcard, c_num_hands, c_play,
                   rules, canon_vars, dealer_vars,
                   play_vars, ev_vars>>

\* chart.context_basic_play(&hand, dealer_up, num_hands).
ContextBasicPlay(num_hands) ==
    /\ c_pc = "start"
    /\ c_pc' = "play"
    /\ c_num_hands' = num_hands
    /\ c_plays' = basic_plays(c_chart, c_hand, c_upcard)
    /\ c_play' = context_basic_play(rules, c_chart, c_hand, c_upcard, num_hands)
    /\ UNCHANGED <<c_chart, c_hand, c_upcard, rules, canon_vars, dealer_vars,
                   play_vars, ev_vars>>

InitChart ==
    /\ CanonIdle
    /\ DealerIdle
    /\ PlayIdle
    /\ EvIdle
    /\ rules \in ChartRuleSets
    /\ c_pc = "start"
    /\ c_hand \in ChartHands
    /\ c_upcard \in 0..MaxChartUpcard
    /\ c_chart \in ChartsOver(KeysOf(c_hand, c_upcard))
    /\ c_num_hands = 0
    /\ c_plays = NoPlays
    /\ c_play = NoPlay

NextChart ==
    \/ BasicPlays
    \/ \E num_hands \in 1..rules.split_hands_limit : ContextBasicPlay(num_hands)

SpecChart == InitChart /\ [][NextChart]_vars

(***************************************************************************)
(* A played hand.  play_hand is walked one step at a time.  A decision of  *)
(* the PerfectStrategy method calls perfect_play, whose recursion is       *)
(* walked one invocation at a time (a state with e_pc = "ev" is an         *)
(* invocation ev(e_allowed, e_hand, e_splits, upcard, e_deck); its         *)
(* successors are the invocations it makes).  The decision itself is any   *)
(* allowed action; Decide is taken from the state the call returned to.    *)
(***************************************************************************)
\* The starting decks.
PlayDecks ==
    {deck \in [RANKS -> 0..MaxPlayCopies] :
        \A r \in RANKS : r > MaxPlayRank => deck[r] = 0}

\* The rule sets a hand is played under: the two presets.
PlayRuleSets == {RULES_1D_H17_NDAS_D10, RULES_6D_H17_DAS_DANY}

\* A plausible slip: the current slot keeps its second card.
split_hands_keeping_pair(hands, hand_idx, drawn, aces) ==
    Append(hands,
           <<hands[hand_idx][2], IF aces THEN drawn[3] ELSE drawn[1]>>)

\* play_hand, Action::Split: the new slot [split_rank, first draw] is pushed,
\* the second card of the current slot is replaced by the second draw, and
\* for aces that cannot be hit the second card of the new slot is replaced
\* by the third draw.
split_hands(hands, hand_idx, drawn, aces) ==
    Append([hands EXCEPT ![hand_idx][2] = drawn[2]],
           <<hands[hand_idx][2], IF aces THEN drawn[3] ELSE drawn[1]>>)

\* A plausible slip: the bust check after the decision is missing.
AfterDecision_without_bust_check(hands, this_hand, at_all) ==
    /\ p_hands' = hands
    /\ p_all' = at_all
    /\ IF this_hand /\ at_all
       THEN p_idx' = p_idx /\ p_pc' = "decide"
       ELSE /\ p_idx' = p_idx + 1
            /\ p_pc' = IF p_idx + 1 <= Len(hands) /\ at_all
                       THEN "decide" ELSE "dealer"

\* The position after one iteration of the inner decision loop.
AfterDecision(hands, this_hand, at_all) ==
    /\ p_hands' = hands
    /\ p_all' = at_all
    /\ IF this_hand /\ Hand_total(hands[p_idx]) <= 21 /\ at_all
       THEN p_idx' = p_idx /\ p_pc' = "decide"
       ELSE /\ p_idx' = p_idx + 1
            /\ p_pc' = IF p_idx + 1 <= Len(hands) /\ at_all
                       THEN "decide" ELSE "dealer"

\* The two hands are dealt: four draws.
Deal ==
    /\ p_pc = "start"
    /\ \E d \in Deck_draws(p_deck, 4) :
          /\ p_deck' = d.deck
          /\ IF d.panicked
             THEN /\ p_pc' = "panic"
                  /\ UNCHANGED <<p_dealer, p_hands, p_bets, p_result>>
             ELSE /\ p_pc' = "dealt"
                  /\ p_dealer' = <<d.cards[1], d.cards[2]>>
                  /\ p_hands' = << <<d.cards[3], d.cards[4]>> >>
                  /\ p_bets' = <<1>>
                  /\ p_result' = [SimulationResult_default
                                    EXCEPT !.hands_started = 1]
    /\ UNCHANGED <<p_idx, p_all, p_method, p_insure_deck, rules, canon_vars,
                   dealer_vars, chart_vars, ev_vars>>

\* Insurance is offered, decided and resolved.
Insure ==
    /\ p_pc = "dealt"
    /\ p_pc' = "insured"
    /\ LET offered == p_dealer[1] = A
           take == take_insurance(p_method, p_dealer, p_deck)
           won == take /\ p_dealer[2] = T
       IN  /\ p_insure_deck' =
                IF offered /\ p_method \in {PerfectStrategy, BasicPerfectComparison}
                THEN deck_plus_down_card(p_deck, p_dealer) ELSE p_insure_deck
           /\ p_result' =
                [p_result EXCEPT
                   !.insurances_offered = IF offered THEN @ + 1 ELSE @,
                   !.insurances_taken = IF take THEN @ + 1 ELSE @,
                   !.insurances_won = IF won THEN @ + 1 ELSE @,
                   !.roi = RAdd(@, insurance_roi(take, p_dealer[2]))]
    /\ UNCHANGED <<p_deck, p_dealer, p_hands, p_idx, p_all, p_method, p_bets,
                   rules, canon_vars, dealer_vars, chart_vars, ev_vars>>

\* Dealt blackjacks end the hand.
ResolveNaturals ==
    /\ p_pc = "insured"
    /\ LET dealer == Hand_total(p_dealer) = 21
           player == Hand_total(p_hands[1]) = 21
       IN  IF dealer \/ player
           THEN /\ p_pc' = "done"
                /\ p_idx' = p_idx
                /\ p_result' =
                     [p_result EXCEPT
                        !.bet_units_placed = @ + 1,
                        !.roi = RAdd(@, naturals_roi(rules,
                                            Hand_total(p_dealer),
                                            Hand_total(p_hands[1])))]
           ELSE p_pc' = "decide" /\ p_idx' = 1 /\ p_result' = p_result
    /\ UNCHANGED <<p_deck, p_dealer, p_hands, p_all, p_method, p_bets,
                   p_insure_deck, rules, canon_vars, dealer_vars, chart_vars,
                   ev_vars>>

\* perfect_play(allowed_actions, from_cards(current_hand), splits_allowed,
\* dealer_up, &deck_plus_down_card), called for a decision of the
\* PerfectStrategy and BasicPerfectComparison methods.
PerfectPlay ==
    /\ p_pc = "decide"
    /\ p_method \in {PerfectStrategy, BasicPerfectComparison}
    /\ e_pc = "idle"
    /\ e_pc' = "ev"
    /\ e_allowed' = play_allowed_actions(rules, p_hands[p_idx], Len(p_hands))
    /\ e_hand' = CanonicalHand_from_cards(p_hands[p_idx])
    /\ e_splits' = play_splits_allowed(rules, p_hands[p_idx], Len(p_hands))
    /\ e_deck' = deck_plus_down_card(p_deck, p_dealer)
    /\ e_again' = FALSE
    /\ e_result' = e_result
    /\ UNCHANGED <<e_returned, e_value, rules, canon_vars, dealer_vars,
                   chart_vars, play_vars>>

\* The decision is applied: the match on decision and the bust check.
Decide(decision) ==
    /\ p_pc = "decide"
    /\ e_pc = "idle"
    /\ decision \in play_allowed_actions(rules, p_hands[p_idx], Len(p_hands))
    /\ p_result' = [p_result EXCEPT !.decisions_made = @ + 1]
    /\ p_bets' = CASE decision = Double -> [p_bets EXCEPT ![p_idx] = @ * 2]
                   [] decision = Split -> Append(p_bets, p_bets[p_idx])
                   [] OTHER -> p_bets
    /\ LET hand == p_hands[p_idx]
           aces == ~rules.hit_split_aces /\ hand[2] = A
           n == CASE decision = Stand -> 0
                  [] decision \in {Hit, Double} -> 1
                  [] decision = Split -> IF aces THEN 3 ELSE 2
       IN  \E d \in Deck_draws(p_deck, n) :
              /\ p_deck' = d.deck
              /\ IF d.panicked
                 THEN p_pc' = "panic" /\ UNCHANGED <<p_hands, p_idx, p_all>>
                 ELSE CASE decision = Stand ->
                             AfterDecision(p_hands, FALSE, p_all)
                        [] decision = Hit ->
                             AfterDecision(
                               [p_hands EXCEPT ![p_idx] = Append(hand, d.cards[1])],
                               TRUE, p_all)
                        [] decision = Double ->
                             AfterDecision(
                               [p_hands EXCEPT ![p_idx] = Append(hand, d.cards[1])],
                               FALSE, p_all)
                        [] decision = Split ->
                             AfterDecision(
                               split_hands(p_hands, p_idx, d.cards, aces),
                               TRUE, p_all /\ ~aces)
    /\ UNCHANGED <<p_dealer, p_method, p_insure_deck, rules, canon_vars,
                   dealer_vars, chart_vars, ev_vars>>

\* One iteration of the dealer's loop; when it ends the winnings are summed.
DealerPlay ==
    /\ p_pc = "dealer"
    /\ IF (\A i \in 1..Len(p_hands) : Hand_total(p_hands[i]) > 21)
          \/ play_dealer_stops(rules, p_dealer)
       THEN /\ p_pc' = "done"
            /\ p_result' = play_winnings(p_result, p_hands, p_bets, p_dealer, 1)
            /\ UNCHANGED <<p_deck, p_dealer>>
       ELSE \E d \in Deck_draws(p_deck, 1) :
               /\ p_deck' = d.deck
               /\ p_result' = p_result
               /\ IF d.panicked
                  THEN p_pc' = "panic" /\ p_dealer' = p_dealer
                  ELSE p_pc' = "dealer" /\ p_dealer' = Append(p_dealer, d.cards[1])
    /\ UNCHANGED <<p_hands, p_idx, p_all, p_method, p_bets, p_insure_deck, rules,
                   canon_vars, dealer_vars, chart_vars, ev_vars>>

\* ev: the assertion, the Busted return, and the call made for one of the
\* allowed actions.
Ev ==
    /\ e_pc = "ev"
    /\ IF ~ev_assertion(e_allowed, e_splits)
       THEN e_pc' = "panic" /\ e_again' = e_again
       ELSE IF e_hand = Busted
       THEN e_pc' = "ret" /\ e_again' = e_again
       ELSE \E allowed_action \in e_allowed :
               /\ e_pc' = CASE allowed_action = Stand -> "ev_stand"
                            [] allowed_action \in {Hit, Double} -> "ev_hit"
                            [] allowed_action = Split -> "ev_split"
               /\ e_again' = (allowed_action = Hit)
    /\ UNCHANGED <<e_allowed, e_hand, e_splits, e_deck, e_result, e_returned,
                   e_value, rules, canon_vars, dealer_vars, chart_vars,
                   play_vars>>

\* ev_stand: the Busted return, or the call of dealer_probabilities_beating.
EvStand ==
    /\ e_pc = "ev_stand"
    /\ IF e_hand = Busted
       THEN e_pc' = "ret" /\ UNCHANGED dealer_vars
       ELSE /\ e_pc' = "dealer"
            /\ d_pc' = "call"
            /\ d_upcard' = p_dealer[1]
            /\ d_target' = CanonicalHand_total(e_hand)
            /\ d_hand' = HashedDealerHand_from_single_card(p_dealer[1])
            /\ d_deck' = e_deck
            /\ UNCHANGED <<d_ret, d_adp>>
    /\ UNCHANGED <<e_allowed, e_hand, e_splits, e_deck, e_again, e_result,
                   e_returned, e_value, rules, canon_vars, chart_vars,
                   play_vars>>

\* ev_hit: the Busted return, the failed assertion of p_next_card_is_each,
\* or one iteration of the loop that is not skipped.
EvHit ==
    /\ e_pc = "ev_hit"
    /\ IF e_hand = Busted
       THEN e_pc' = "ret" /\ UNCHANGED <<e_allowed, e_hand, e_splits, e_deck>>
       ELSE IF p_next_card_is_each(e_deck, TRUE, TRUE).panicked
       THEN e_pc' = "panic" /\ UNCHANGED <<e_allowed, e_hand, e_splits, e_deck>>
       ELSE \E next_card \in ev_next_cards(e_deck) :
               /\ e_deck' = Deck_removed(e_deck, next_card)
               /\ e_hand' = CanonicalHand_add(e_hand, next_card)
               /\ IF e_again
                  THEN /\ e_pc' = "ev"
                       /\ e_allowed' = {Stand, Hit}
                       /\ e_splits' = 0
                  ELSE /\ e_pc' = "ev_stand"
                       /\ UNCHANGED <<e_allowed, e_splits>>
    /\ UNCHANGED <<e_again, e_result, e_returned, e_value, rules, canon_vars,
                   dealer_vars, chart_vars, play_vars>>

\* ev_split: its assertion and match, the failed assertion of
\* p_next_card_is_each, or one iteration of the loop that is not skipped.
EvSplit ==
    /\ e_pc = "ev_split"
    /\ IF ~(e_splits > 0) \/ e_hand.tag # "Pair"
          \/ p_next_card_is_each(e_deck, TRUE, TRUE).panicked
       THEN e_pc' = "panic" /\ UNCHANGED <<e_allowed, e_hand, e_splits, e_deck>>
       ELSE \E new_second_card \in ev_next_cards(e_deck) :
               /\ e_deck' = Deck_removed(e_deck, new_second_card)
               /\ e_hand' = CanonicalHand_add(Single(e_hand.v), new_second_card)
               /\ e_allowed' = split_actions_allowed_after(rules, e_hand.v,
                                   e_splits, new_second_card)
               /\ e_splits' = splits_allowed_after(e_hand.v, e_splits,
                                                   new_second_card)
               /\ e_pc' = IF can_act_after(rules, e_hand.v)
                          THEN "ev" ELSE "ev_stand"
    /\ UNCHANGED <<e_again, e_result, e_returned, e_value, rules, canon_vars,
                   dealer_vars, chart_vars, play_vars>>

Init ==
    /\ CanonIdle
    /\ DealerIdle
    /\ ChartIdle
    /\ EvIdle
    /\ rules \in PlayRuleSets
    /\ p_pc = "start"
    /\ p_deck \in PlayDecks
    /\ p_dealer = <<>>
    /\ p_hands = <<>>
    /\ p_idx = 0
    /\ p_all = TRUE
    /\ p_method = PerfectStrategy
    /\ p_bets = <<>>
    /\ p_result = SimulationResult_default
    /\ p_insure_deck = NoDeck

Next ==
    \/ Deal
    \/ Insure
    \/ ResolveNaturals
    \/ PerfectPlay
    \/ \E decision \in Action : Decide(decision)
    \/ DealerPlay
    \/ Ev
    \/ EvStand
    \/ EvHit
    \/ EvSplit
    \/ DealerBase
    \/ DealerRecurse
    \/ DealerAssertFails

Spec == Init /\ [][Next]_vars

(***************************************************************************)
(* A played hand and its result, for every decision method.  The calls of  *)
(* the solver are made (PerfectPlay) but not walked.                       *)
(***************************************************************************)
\* The ranks of the starting decks: tens and aces (naturals, insurance,
\* split aces), fives and sixes (doubles on 10 and 11, pairs, soft and hard
\* 17, busts).
HandRanks == {T, A, 5, 6}

\* The starting decks.
HandDecks ==
    {deck \in [RANKS -> 0..MaxHandCopies] :
        /\ \A r \in RANKS \ HandRanks : deck[r] = 0
        /\ Deck_len(deck) <= MaxHandDeck}

\* The rule sets a hand is played for its result under: the two presets,
\* and the second one with the dealer standing on soft 17.
HandRuleSets ==
    PlayRuleSets \cup {[RULES_6D_H17_DAS_DANY EXCEPT !.hit_soft_17 = FALSE]}

InitPlay ==
    /\ CanonIdle
    /\ DealerIdle
    /\ ChartIdle
    /\ EvIdle
    /\ rules \in HandRuleSets
    /\ p_pc = "start"
    /\ p_deck \in HandDecks
    /\ p_dealer = <<>>
    /\ p_hands = <<>>
    /\ p_idx = 0
    /\ p_all = TRUE
    /\ p_method \in PlayerDecisionMethod
    /\ p_bets = <<>>
    /\ p_result = SimulationResult_default
    /\ p_insure_deck = NoDeck

NextPlay ==
    \/ Deal
    \/ Insure
    \/ ResolveNaturals
    \/ PerfectPlay
    \/ \E decision \in Action : Decide(decision)
    \/ DealerPlay

SpecPlay == InitPlay /\ [][NextPlay]_vars

(***************************************************************************)
(* A played hand run to its end: play_hand is sequential code, so a step   *)
(* that can be taken is taken (weak fairness of the next-step relation).   *)
(* The call that computes a decision returns; the recursion behind it is   *)
(* walked in Spec and SpecSolve.  The decision method is the chart: the    *)
(* loops of play_hand do not depend on the method.                         *)
(***************************************************************************)
\* The starting decks.
LiveDecks ==
    {deck \in [RANKS -> 0..MaxLiveCopies] :
        /\ \A r \in RANKS \ HandRanks : deck[r] = 0
        /\ Deck_len(deck) <= MaxLiveDeck}

InitLive ==
    /\ CanonIdle
    /\ DealerIdle
    /\ ChartIdle
    /\ EvIdle
    /\ rules \in HandRuleSets
    /\ p_pc = "start"
    /\ p_deck \in LiveDecks
    /\ p_dealer = <<>>
    /\ p_hands = <<>>
    /\ p_idx = 0
    /\ p_all = TRUE
    /\ p_method = BasicStrategy
    /\ p_bets = <<>>
    /\ p_result = SimulationResult_default
    /\ p_insure_deck = NoDeck

NextLive ==
    \/ Deal
    \/ Insure
    \/ ResolveNaturals
    \/ \E decision \in Action : Decide(decision)
    \/ DealerPlay

SpecLive == InitLive /\ [][NextLive]_vars /\ WF_vars(NextLive)

(***************************************************************************)
(* A played hand with several slots: the decks hold enough cards of one    *)
(* rank for the slots to reach split_hands_limit and for a slot and the    *)
(* dealer to bust in the same hand.                                        *)
(***************************************************************************)
\* The starting decks.
SlotDecks ==
    {deck \in {[r \in RANKS |-> CASE r = T -> tens
                                  [] r = A -> aces
                                  [] r = 5 -> fives
                                  [] OTHER -> 0] :
                  tens \in 0..MaxSlotCopies, aces \in 0..MaxSlotAces,
                  fives \in 0..MaxSlotCopies} :
        Deck_len(deck) <= MaxSlotDeck}

\* The rule sets: the two presets, and the second one with hit_split_aces.
SolveRuleSets ==
    PlayRuleSets \cup {[RULES_6D_H17_DAS_DANY EXCEPT !.hit_split_aces = TRUE]}

InitSlots ==
    /\ CanonIdle
    /\ DealerIdle
    /\ ChartIdle
    /\ EvIdle
    /\ rules \in SolveRuleSets
    /\ p_pc = "start"
    /\ p_deck \in SlotDecks
    /\ p_dealer = <<>>
    /\ p_hands = <<>>
    /\ p_idx = 0
    /\ p_all = TRUE
    /\ p_method = PerfectStrategy
    /\ p_bets = <<>>
    /\ p_result = SimulationResult_default
    /\ p_insure_deck = NoDeck

NextSlots ==
    \/ Deal
    \/ Insure
    \/ ResolveNaturals
    \/ PerfectPlay
    \/ \E decision \in Action : Decide(decision)
    \/ DealerPlay

SpecSlots == InitSlots /\ [][NextSlots]_vars

(***************************************************************************)
(* A played hand and the solver's recursion as in Spec, on decks that hold *)
(* a third card of the rank of a pair, so that the solver can split again, *)
(* and under a rule set that lets split aces be hit.                       *)
(***************************************************************************)
\* The starting decks.
SolveDecks ==
    {deck \in {[r \in RANKS |-> CASE r = A -> aces
                                  [] r = 5 -> fives
                                  [] r = 8 -> eights
                                  [] OTHER -> 0] :
                  aces \in 0..MaxSolveCopies, fives \in 0..MaxSolveCopies,
                  eights \in 0..MaxSolveCopies} :
        Deck_len(deck) <= MaxSolveDeck}

InitSolve ==
    /\ CanonIdle
    /\ DealerIdle
    /\ ChartIdle
    /\ EvIdle
    /\ rules \in SolveRuleSets
    /\ p_pc = "start"
    /\ p_deck \in SolveDecks
    /\ p_dealer = <<>>
    /\ p_hands = <<>>
    /\ p_idx = 0
    /\ p_all = TRUE
    /\ p_method = PerfectStrategy
    /\ p_bets = <<>>
    /\ p_result = SimulationResult_default
    /\ p_insure_deck = NoDeck

\* The values a call made by the loops of ev_hit and ev_split returns: a
\* sure loss or a sure win of the bet.
SolveValues == {<<-1, 1>>, One}

\* What the calls made for the next cards of a deck can return.
SolveReturns(deck) ==
    LET next_cards == ev_next_cards(deck)
    IN  {[r \in RANKS |-> IF r \in next_cards THEN f[r] ELSE Zero] :
           f \in [next_cards -> SolveValues]}

\* ev_hit returns, its loop done.  With can_act_again = false the caller is
\* ev_double, and the value is the one ev_double returns.
EvHitReturns ==
    /\ e_pc = "ev_hit"
    /\ e_hand # Busted
    /\ ~p_next_card_is_each(e_deck, TRUE, TRUE).panicked
    /\ e_pc' = "ret"
    /\ \E returned \in SolveReturns(e_deck) :
          /\ e_returned' = returned
          /\ e_value' = IF e_again THEN ev_hit_value(e_hand, e_deck, returned)
                        ELSE ev_double_value(e_hand, e_deck, returned)
    /\ UNCHANGED <<e_allowed, e_hand, e_splits, e_deck, e_again, e_result, rules,
                   canon_vars, dealer_vars, chart_vars, play_vars>>

\* ev_split returns, its loop done.
EvSplitReturns ==
    /\ e_pc = "ev_split"
    /\ e_splits > 0 /\ e_hand.tag = "Pair"
    /\ ~p_next_card_is_each(e_deck, TRUE, TRUE).panicked
    /\ e_pc' = "ret"
    /\ \E returned \in SolveReturns(e_deck) :
          /\ e_returned' = returned
          /\ e_value' = ev_split_value(e_deck, returned)
    /\ UNCHANGED <<e_allowed, e_hand, e_splits, e_deck, e_again, e_result, rules,
                   canon_vars, dealer_vars, chart_vars, play_vars>>

NextSolve ==
    \/ Deal
    \/ Insure
    \/ ResolveNaturals
    \/ PerfectPlay
    \/ \E decision \in Action : Decide(decision)
    \/ DealerPlay
    \/ Ev
    \/ EvStand
    \/ EvHit
    \/ EvSplit
    \/ EvHitReturns
    \/ EvSplitReturns
    \/ DealerBase
    \/ DealerRecurse
    \/ DealerAssertFails

SpecSolve == InitSolve /\ [][NextSolve]_vars

(***************************************************************************)
(* One invocation of ev, from its arguments to its return.  What the calls *)
(* of ev_stand, ev_hit, ev_double and ev_split return is an input.         *)
(***************************************************************************)
\* The values a call made by ev returns.
EvValues == {Rat(n, MaxEvDen) : n \in (-MaxEvDen)..MaxEvDen}

\* The hands ev is invoked with.
EvHands == {Busted, Hard2Card(12), Pair(8)}

\* ev returns (or its assertion fails).
EvReturns(returned) ==
    /\ e_pc = "ev"
    /\ p_pc = "idle"
    /\ IF ~ev_assertion(e_allowed, e_splits)
       THEN e_pc' = "panic" /\ e_result' = e_result
       ELSE /\ e_pc' = "ret"
            /\ e_result' = ev_result(e_allowed, e_hand, returned)
    /\ UNCHANGED <<e_allowed, e_hand, e_splits, e_deck, e_again, e_returned,
                   e_value, rules, canon_vars, dealer_vars, chart_vars,
                   play_vars>>

InitEv ==
    /\ CanonIdle
    /\ DealerIdle
    /\ ChartIdle
    /\ PlayIdle
    /\ rules = RULES_6D_H17_DAS_DANY
    /\ e_pc = "ev"
    /\ e_allowed \in SUBSET Action
    /\ e_hand \in EvHands
    /\ e_splits \in 0..1
    /\ e_deck = NoDeck
    /\ e_again = FALSE
    /\ e_result = NoResult
    /\ e_returned = NoReturned
    /\ e_value = Zero

NextEv == \E returned \in [Action -> EvValues] : EvReturns(returned)

SpecEv == InitEv /\ [][NextEv]_vars

(***************************************************************************)
(* Properties of the hand algebra (checked under SpecCanon).               *)
(***************************************************************************)
\* The cards of the current hand rearranged by the index permutation f.
Rearranged(f) == [i \in 1..Len(cards) |-> cards[f[i]]]

\* C1: canonicalization is order-independent: folding any permutation of the
\* cards from Empty gives the same CanonicalHand as folding the cards in the
\* order they were drawn.
C1_OrderIndependent ==
    \A f \in Permutations(1..Len(cards)) :
        CanonicalHand_from_cards(Rearranged(f)) = canon

\* A three-card hand with an ace and two different leading cards has been
\* folded to a hard total (the ace was demoted along the way or came last).
C1_Witness ==
    /\ Len(cards) >= 3
    /\ cards[1] # cards[2]
    /\ ContainsAce(cards)
    /\ canon.tag = "Hard3PlusCard"

\* The closure table of the data model, written out case by case with
\* val = 10 for T, 1 for A, n for 2..9.
TableHard(n, r) ==
    IF r = A /\ n < 11 THEN Soft3PlusCard(n + 11)
    ELSE IF n + card_value(r) <= 21 THEN Hard3PlusCard(n + card_value(r))
    ELSE Busted

TableSoft(n, r) ==
    IF n + card_value(r) <= 21 THEN Soft3PlusCard(n + card_value(r))
    ELSE Hard3PlusCard(n + card_value(r) - 10)

ClosureTable(h, r) ==
    CASE h.tag = "Empty" -> Single(r)
      [] h.tag = "Single" ->
            IF {h.v, r} = {A, T} THEN Blackjack
            ELSE IF h.v = r THEN Pair(r)
            ELSE IF A \in {h.v, r}
                 THEN Soft2Card(11 + (CHOOSE n \in {h.v, r} : n # A))
            ELSE Hard2Card(card_value(h.v) + card_value(r))
      [] h.tag \in {"Hard2Card", "Hard3PlusCard"} -> TableHard(h.v, r)
      [] h.tag \in {"Soft2Card", "Soft3PlusCard"} -> TableSoft(h.v, r)
      [] h.tag = "Pair" ->
            IF h.v = A /\ r = T THEN Hard3PlusCard(12)
            ELSE IF h.v = A THEN Soft3PlusCard(12 + card_value(r))
            ELSE TableHard(2 * card_value(h.v), r)
      [] h.tag = "Blackjack" -> TableSoft(21, r)
      [] h.tag = "Busted" -> Busted

\* C2: for the CanonicalHand of every hand and every rank r, h + r is the
\* entry of the closure table.
C2_ClosureTable ==
    \A r \in RANKS : CanonicalHand_add(canon, r) = ClosureTable(canon, r)

\* A pair has been formed and a third card added to it.
C2_Witness ==
    /\ Len(cards) = 3
    /\ cards[1] = cards[2]
    /\ canon = ClosureTable(Pair(cards[1]), cards[3])

\* The closed-form total of the data model: value(r) for Single(r),
\* 2 * value(r) for Pair(r).
ClosedFormTotal(h) ==
    CASE h.tag = "Empty" -> 0
      [] h.tag = "Single" -> card_value(h.v)
      [] h.tag \in {"Hard2Card", "Hard3PlusCard", "Soft2Card", "Soft3PlusCard"}
            -> h.v
      [] h.tag = "Pair" -> 2 * card_value(h.v)
      [] h.tag = "Blackjack" -> 21

\* C3: total() returns the closed-form total of every non-busted variant
\* (10 for Single(T), 20 for Pair(T)).
C3_TotalClosedForm ==
    canon.tag # "Busted" => CanonicalHand_total(canon) = ClosedFormTotal(canon)

(***************************************************************************)
(* Properties of the dealer-outcome solver (checked under SpecDealer).     *)
(***************************************************************************)
\* Ranks of positive count.
Present(deck) == {r \in RANKS : deck[r] > 0}

\* The finishing rule as stated: 18 or more, or 17 or more and (soft-17
\* hitting is off or the hand is hard).
StatedFinished(h) ==
    \/ h.total >= 18
    \/ (h.total >= 17 /\ (~rules.hit_soft_17 \/ ~h.is_soft))

\* The value stated for a finished state.
StatedFinishedValue(target, h) ==
    CASE target > 21 -> <<One, Zero>>
      [] target <= 21 /\ h.total > 21 -> <<Zero, Zero>>
      [] target <= 21 /\ h.total <= 21 /\ h.total > target -> <<One, Zero>>
      [] target <= 21 /\ h.total <= 21 /\ h.total = target -> <<Zero, One>>
      [] target <= 21 /\ h.total <= 21 /\ h.total < target -> <<Zero, Zero>>

\* C7: a call of dealer_probabilities_beating returns from its base case
\* exactly when the dealer is finished by the stated rule, and then with the
\* stated value; in every other state it does not return but goes on to draw:
\* the call it makes next has moved one card of the deck into the dealer hand.
C7_DealerFinishRule ==
    [][d_pc = "call" =>
          IF StatedFinished(d_hand)
          THEN /\ d_pc' = "ret"
               /\ d_ret' = StatedFinishedValue(d_target, d_hand)
          ELSE /\ d_pc' # "ret"
               /\ d_pc' = "call" =>
                    \E r \in Present(d_deck) :
                        /\ d_deck' = Deck_removed(d_deck, r)
                        /\ d_hand' = HashedDealerHand_add(d_hand, r)]_vars

\* The dealer stood on a soft 17 (soft-17 hitting off) and pushed a 17.
C7_Witness ==
    /\ d_pc = "ret"
    /\ ~rules.hit_soft_17
    /\ d_hand.total = 17 /\ d_hand.is_soft
    /\ d_target = 17
    /\ d_ret = <<Zero, One>>

\* C8: in a call that draws, from the one-card state of upcard T no ace is
\* enumerated, from the one-card state of upcard A no ten is enumerated, and
\* every other present rank is enumerated with weight count / (deck size
\* minus the count of the excluded rank); in a state that is not one-card
\* every present rank is enumerated.
C8_NoDealerNatural ==
    (d_pc = "call" /\ ~dealer_finished(d_hand, rules)) =>
        LET enumerated == dealer_next_cards(d_hand, d_deck)
            p == dealer_p_next_card_is(d_hand, d_deck).p
            excluded == IF ~d_hand.is_one THEN {}
                        ELSE IF d_upcard = T THEN {A}
                        ELSE IF d_upcard = A THEN {T}
                        ELSE {}
            reduced == Deck_len(d_deck)
                         - (IF A \in excluded THEN d_deck[A] ELSE 0)
                         - (IF T \in excluded THEN d_deck[T] ELSE 0)
        IN  /\ enumerated = Present(d_deck) \ excluded
            /\ \A r \in enumerated : p[r] = Rat(d_deck[r], reduced)

\* The one-card state of upcard T with an ace and another card in the deck.
C8_Witness ==
    /\ d_pc = "call"
    /\ d_hand.is_one /\ d_upcard = T
    /\ d_deck[A] > 0
    /\ Deck_len(d_deck) > d_deck[A]

\* Sum of the six entries of the array of all_dealer_probabilities.
SumOfSix(a) ==
    RAdd(a[1], RAdd(a[2], RAdd(a[3], RAdd(a[4], RAdd(a[5], a[6])))))

\* C9: for any upcard and any non-empty deck the dealer end-total
\* distribution [P(bust), P(17), ..., P(21)] sums to 1.
C9_DistributionSumsToOne ==
    d_pc = "adp" => SumOfSix(d_adp) = One

\* A distribution with a bust probability and a probability of 17 that are
\* both positive.
C9_Witness ==
    /\ d_pc = "adp"
    /\ RIsPositive(d_adp[1])
    /\ RIsPositive(d_adp[2])
    /\ Deck_len(d_deck) > 0

\* C10: at every call p_next_card_is_each gives 0 to every excluded or absent
\* rank, count / reduced sample space to every other rank, the entries sum
\* to 1 and the range assertion holds.
C10_NextCardDistribution ==
    (d_pc = "call" /\ ~dealer_finished(d_hand, rules)) =>
        LET ten == next_can_be_ten(d_hand)
            ace == next_can_be_ace(d_hand)
            res == p_next_card_is_each(d_deck, ten, ace)
            reduced == Deck_len(d_deck)
                         - (IF ten THEN 0 ELSE d_deck[T])
                         - (IF ace THEN 0 ELSE d_deck[A])
        IN  /\ \A r \in RANKS :
                  IF d_deck[r] = 0 \/ (r = T /\ ~ten) \/ (r = A /\ ~ace)
                  THEN res.p[r] = Zero
                  ELSE res.p[r] = Rat(d_deck[r], reduced)
            /\ RankArray_sum(res.p) = One
            /\ ~res.panicked

(***************************************************************************)
(* Properties of the basic-strategy chart lookups (SpecChart).             *)
(***************************************************************************)
\* The classification as stated: Pair(rank) for exactly two equal cards,
\* otherwise Soft(total) or Hard(total).
StatedReclass(hand) ==
    IF Hand_is_soft(hand) THEN [kind |-> "Soft", n |-> Hand_total(hand)]
    ELSE [kind |-> "Hard", n |-> Hand_total(hand)]

StatedClass(hand) ==
    IF Len(hand) = 2 /\ hand[1] = hand[2]
    THEN [kind |-> "Pair", n |-> hand[1]]
    ELSE StatedReclass(hand)

StatedPlays(chart, hand, upcard) ==
    LET cell == chart[<<StatedClass(hand), upcard>>]
        back == <<StatedReclass(hand), upcard>>
    IN  IF StatedClass(hand).kind = "Pair" /\ cell[1] = Split
           /\ back \in DOMAIN chart
        THEN cell \o chart[back]
        ELSE cell

StatedDoubleRules(r, hand, num_hands) ==
    /\ (r.double_after_split \/ num_hands = 1)
    /\ (r.double_any_hands
          \/ Hand_total(hand) \in r.double_hard_hands_thru_11..11)

StatedSplitLimit(r, hand) ==
    IF hand[1] = A THEN r.split_aces_limit ELSE r.split_hands_limit

StatedAllowed(r, hand, num_hands, a) ==
    \/ a \in {Stand, Hit}
    \/ a = Double /\ Len(hand) = 2 /\ StatedDoubleRules(r, hand, num_hands)
    \/ a = Split /\ Len(hand) = 2 /\ hand[1] = hand[2]
         /\ num_hands < StatedSplitLimit(r, hand)

\* C6: context_basic_play returns the first action of the basic_plays list
\* that is allowed in context (Double only for a two-card hand satisfying the
\* double rules, Split only for a pair with num_hands below the applicable
\* limit), and fails when no listed action is allowed.
C6_FirstAllowedAction ==
    (c_pc = "play" /\ ~c_plays.panicked)
    => LET list == c_plays.actions
           ok == {i \in 1..Len(list) :
                     StatedAllowed(rules, c_hand, c_num_hands, list[i])}
       IN  IF ok = {} THEN c_play.panicked
           ELSE /\ ~c_play.panicked
                /\ \E i \in ok : /\ c_play.action = list[i]
                                 /\ \A j \in 1..(i - 1) : j \notin ok

\* A three-card hand whose list starts with Double got the next action.
C6_Witness ==
    /\ c_pc = "play"
    /\ Len(c_hand) = 3
    /\ ~c_plays.panicked
    /\ Len(c_plays.actions) = 2
    /\ c_plays.actions[1] = Double
    /\ rules.double_any_hands
    /\ c_num_hands = 1
    /\ ~c_play.panicked
    /\ c_play.action = c_plays.actions[2]

(***************************************************************************)
(* Properties of the decks of a played hand (Spec).                        *)
(***************************************************************************)
\* C4: every deck reached from a starting deck through the draws of
\* play_hand and through the recursion of ev, ev_hit, ev_split and
\* dealer_probabilities_beating has all ten rank counts >= 0 (no draw and no
\* removed(r) is applied to a rank whose count is zero).
C4_DeckCountsNonNegative ==
    \A r \in RANKS : p_deck[r] >= 0 /\ e_deck[r] >= 0 /\ d_deck[r] >= 0

\* After a hit of the player, ev_hit and the dealer recursion have removed
\* cards, the dealer recursion the last copy of a rank.
C4_Witness ==
    /\ p_pc = "decide"
    /\ Len(p_hands[p_idx]) > 2
    /\ e_pc = "dealer"
    /\ d_pc = "call"
    /\ Deck_len(e_deck) < Deck_len(p_deck) + 1
    /\ Deck_len(d_deck) < Deck_len(e_deck)
    /\ \E r \in RANKS : d_deck[r] = 0 /\ e_deck[r] > 0

(***************************************************************************)
(* Properties of the result of ev (SpecEv).                                *)
(***************************************************************************)
\* The position of an action in the order Stand, Hit, Double, Split.
StatedRank(a) == CHOOSE i \in 1..4 : <<Stand, Hit, Double, Split>>[i] = a

\* C11: for a non-busted hand with an allowed action, ev returns negative
\* infinity for every action that is not allowed, a best action that is
\* allowed and whose EV is >= the EV of every other action, the earliest such
\* action in the order Stand, Hit, Double, Split, and ev = choices[best]; for
\* a Busted hand it returns ev = -1, action = Stand, choices[Stand] = -1 and
\* negative infinity elsewhere.
C11_EvResult ==
    (e_pc = "ret" /\ p_pc = "idle") =>
        LET res == e_result
        IN  IF e_hand = Busted
            THEN /\ res.ev = <<-1, 1>>
                 /\ res.action = Stand
                 /\ res.choices[Stand] = <<-1, 1>>
                 /\ \A a \in Action \ {Stand} : res.choices[a] = NEG_INFINITY
            ELSE /\ \A a \in Action \ e_allowed : res.choices[a] = NEG_INFINITY
                 /\ e_allowed # {} =>
                      /\ res.action \in e_allowed
                      /\ \A a \in Action :
                            ~RLess(res.choices[res.action], res.choices[a])
                      /\ \A a \in Action :
                            res.choices[a] = res.choices[res.action]
                              => StatedRank(res.action) <= StatedRank(a)
                      /\ res.ev = res.choices[res.action]

\* Hit and Double tie for the best EV, above Stand: Hit is returned.
C11_Witness ==
    /\ e_pc = "ret"
    /\ p_pc = "idle"
    /\ e_hand # Busted
    /\ e_allowed = {Stand, Hit, Double}
    /\ e_result.choices[Hit] = e_result.choices[Double]
    /\ RLess(e_result.choices[Stand], e_result.choices[Hit])
    /\ e_result.action = Hit

\* C12: asked to evaluate a non-busted hand for which no action is allowed
\* (splits_allowed = 0), the solver terminates with an error instead of
\* returning a result.
C12_NoAllowedActionFails ==
    (p_pc = "idle" /\ e_hand # Busted /\ e_allowed = {} /\ e_splits = 0)
        => e_pc # "ret"

(***************************************************************************)
(* Properties of a played hand (SpecPlay).                                 *)
(***************************************************************************)
\* The draw pile with one more card of the down card's rank.
StatedSolverDeck(deck, down) ==
    [r \in RANKS |-> IF r = down THEN deck[r] + 1 ELSE deck[r]]

\* C13: every deck passed to the decision logic (perfect_play, the strategy
\* comparison, perfect_insure) is the current draw pile with the dealer's
\* down card added back: one more card of the down card's rank, otherwise
\* identical; the other arguments are the player's hand and the up card.
C13_SolverDeckHasDownCard ==
    [][/\ (e_pc = "idle" /\ e_pc' # "idle") =>
             /\ e_deck' = StatedSolverDeck(p_deck, p_dealer[2])
             /\ e_hand' = CanonicalHand_from_cards(p_hands[p_idx])
       /\ (p_pc = "dealt" /\ p_insure_deck' # p_insure_deck) =>
             p_insure_deck' = StatedSolverDeck(p_deck, p_dealer[2])]_vars

\* perfect_insure was consulted, and perfect_play is called after a hit.
C13_Witness ==
    /\ p_pc = "decide"
    /\ e_pc = "ev"
    /\ Len(p_hands[p_idx]) > 2
    /\ p_insure_deck # NoDeck
    /\ e_deck[p_dealer[2]] = p_deck[p_dealer[2]] + 1

\* C14: if after the four-card deal the dealer and/or the player holds a
\* two-card 21, play_hand returns at once: the main bet adds 0 to roi when
\* both have 21, -1 when only the dealer has, +blackjack_multiplier when only
\* the player has; no decision is requested, no further card is drawn, and
\* bet_units_placed = 1.
C14_DealtBlackjacks ==
    [][/\ p_pc \in {"dealt", "insured"} =>
             /\ Len(p_dealer) = 2 /\ Len(p_hands) = 1 /\ Len(p_hands[1]) = 2
             /\ UNCHANGED <<p_deck, p_dealer, p_hands>>
       /\ (p_pc = "insured"
             /\ (Hand_total(p_dealer) = 21 \/ Hand_total(p_hands[1]) = 21)) =>
             /\ p_pc' = "done"
             /\ p_result'.decisions_made = 0
             /\ p_result'.bet_units_placed = 1
             /\ p_result'.roi =
                  RAdd(p_result.roi,
                       IF Hand_total(p_dealer) = 21 /\ Hand_total(p_hands[1]) = 21
                       THEN Zero
                       ELSE IF Hand_total(p_dealer) = 21 THEN <<-1, 1>>
                       ELSE rules.blackjack_multiplier)
       /\ p_pc # "done"]_vars

\* Only the player was dealt a blackjack; it was paid 3/2.
C14_Witness ==
    /\ p_pc = "done"
    /\ Hand_total(p_hands[1]) = 21
    /\ Hand_total(p_dealer) # 21
    /\ Len(p_hands[1]) = 2
    /\ p_result.decisions_made = 0
    /\ p_result.bet_units_placed = 1
    /\ p_result.roi = <<3, 2>>

\* The tens and the cards of the draw pile with the down card counted in.
StatedTens(deck, down) == deck[T] + (IF down = T THEN 1 ELSE 0)
StatedCards(deck) == Deck_len(deck) + 1

\* C15: insurance is offered exactly when the up card is an ace; under the
\* perfect-strategy and comparison methods it is taken iff the fraction of
\* tens in the deck including the down card is strictly greater than 1/3;
\* under the basic-strategy method it is never taken.
C15_InsuranceDecision ==
    [][p_pc = "dealt" =>
          /\ p_result'.insurances_offered = (IF p_dealer[1] = A THEN 1 ELSE 0)
          /\ p_result'.insurances_taken \in 0..1
          /\ p_method \in {PerfectStrategy, BasicPerfectComparison} =>
                (p_result'.insurances_taken = 1
                   <=> /\ p_dealer[1] = A
                       /\ 3 * StatedTens(p_deck, p_dealer[2]) > StatedCards(p_deck))
          /\ p_method = BasicStrategy => p_result'.insurances_taken = 0]_vars

\* Exactly one third of the cards are tens: insurance was offered under the
\* perfect-strategy method and not taken.
C15_Witness ==
    /\ p_pc = "insured"
    /\ p_method = PerfectStrategy
    /\ p_dealer[1] = A
    /\ 3 * StatedTens(p_deck, p_dealer[2]) = StatedCards(p_deck)
    /\ p_result.insurances_offered = 1
    /\ p_result.insurances_taken = 0

\* The payout of the main bet as stated: the dealt blackjacks, or slot by
\* slot the bet won, lost or pushed on the scores (player bust 0, dealer
\* bust 1).
RECURSIVE StatedSlotsPayout(_, _, _, _)
StatedSlotsPayout(hands, bets, dealer, i) ==
    IF i > Len(hands) THEN Zero
    ELSE LET mine == IF Hand_total(hands[i]) > 21 THEN 0 ELSE Hand_total(hands[i])
             theirs == IF Hand_total(dealer) > 21 THEN 1 ELSE Hand_total(dealer)
             here == IF mine > theirs THEN <<bets[i], 1>>
                     ELSE IF mine < theirs THEN <<-bets[i], 1>>
                     ELSE Zero
         IN  RAdd(here, StatedSlotsPayout(hands, bets, dealer, i + 1))

RECURSIVE StatedBetsPlaced(_, _)
StatedBetsPlaced(bets, i) ==
    IF i > Len(bets) THEN 0 ELSE bets[i] + StatedBetsPlaced(bets, i + 1)

StatedDealtBlackjack(hands, dealer) ==
    /\ Len(hands) = 1 /\ Len(hands[1]) = 2 /\ Len(dealer) = 2
    /\ (Hand_total(hands[1]) = 21 \/ Hand_total(dealer) = 21)

StatedMainPayout(r, hands, bets, dealer) ==
    IF StatedDealtBlackjack(hands, dealer)
    THEN (IF Hand_total(hands[1]) = 21 /\ Hand_total(dealer) = 21 THEN Zero
          ELSE IF Hand_total(dealer) = 21 THEN <<-1, 1>>
          ELSE r.blackjack_multiplier)
    ELSE StatedSlotsPayout(hands, bets, dealer, 1)

StatedInsurancePayout(result) ==
    IF result.insurances_won = 1 THEN One
    ELSE IF result.insurances_taken = 1 THEN <<-1, 2>>
    ELSE Zero

\* C16: a taken insurance bet adds exactly +1 to roi when the down card is T
\* and exactly -1/2 otherwise, and changes nothing else: the hands, the
\* deck, the bets, the decisions and bet_units_placed are left as they
\* were, and the final roi is that contribution plus the payout of the main
\* bet, which is a function of the hands, the bets and the dealer's hand.
C16_InsuranceIsIndependent ==
    [][/\ p_pc = "dealt" =>
             /\ p_result'.roi =
                  RAdd(p_result.roi,
                       IF p_result'.insurances_taken = 0 THEN Zero
                       ELSE IF p_dealer[2] = T THEN One ELSE <<-1, 2>>)
             /\ p_result'.insurances_won =
                  (IF p_result'.insurances_taken = 1 /\ p_dealer[2] = T
                   THEN 1 ELSE 0)
             /\ p_result'.bet_units_placed = p_result.bet_units_placed
             /\ p_result'.decisions_made = p_result.decisions_made
             /\ UNCHANGED <<p_deck, p_dealer, p_hands, p_bets, p_idx, p_all>>
       /\ p_pc # "dealt" =>
             /\ p_result'.insurances_taken = p_result.insurances_taken
             /\ p_result'.insurances_won = p_result.insurances_won
       /\ p_pc' = "done" =>
             /\ p_result'.roi =
                  RAdd(StatedInsurancePayout(p_result'),
                       StatedMainPayout(rules, p_hands', p_bets', p_dealer'))
             /\ p_result'.bet_units_placed =
                  (IF StatedDealtBlackjack(p_hands', p_dealer') THEN 1
                   ELSE StatedBetsPlaced(p_bets', 1))]_vars

\* Insurance was taken and lost, and the hand was played to its end.
C16_Witness ==
    /\ p_pc = "done"
    /\ p_result.insurances_taken = 1
    /\ p_result.insurances_won = 0
    /\ p_result.decisions_made > 0
    /\ Len(p_dealer) > 2
    /\ p_result.roi = RAdd(<<-1, 2>>,
                           StatedMainPayout(rules, p_hands, p_bets, p_dealer))

\* The mask as stated.
StatedSplitsAllowed(r, hand, num_hands) ==
    IF Len(hand) = 2 /\ hand[1] = hand[2]
    THEN (IF hand[1] = A THEN r.split_aces_limit ELSE r.split_hands_limit)
           - num_hands
    ELSE 0

StatedMask(r, hand, num_hands) ==
    {a \in Action :
       \/ a \in {Stand, Hit}
       \/ /\ a = Double
          /\ Len(hand) = 2
          /\ (r.double_after_split \/ num_hands = 1)
          /\ (r.double_any_hands
                \/ Hand_total(hand) \in r.double_hard_hands_thru_11..11)
       \/ /\ a = Split
          /\ Len(hand) = 2 /\ hand[1] = hand[2]
          /\ num_hands < (IF hand[1] = A THEN r.split_aces_limit
                          ELSE r.split_hands_limit)}

\* C17: at every decision point the mask has Stand and Hit; Double iff the
\* hand has exactly 2 cards and (double_after_split or num_hands = 1) and
\* (double_any_hands or double_hard_hands_thru_11 <= total <= 11); Split iff
\* the hand is a pair and num_hands is below split_aces_limit (aces) or
\* split_hands_limit (other pairs); splits_allowed is that limit minus
\* num_hands.
C17_AllowedActionMask ==
    [][(e_pc = "idle" /\ e_pc' = "ev") =>
          /\ e_allowed' = StatedMask(rules, p_hands[p_idx], Len(p_hands))
          /\ e_splits' = StatedSplitsAllowed(rules, p_hands[p_idx], Len(p_hands))]_vars

\* A first decision on a pair of fives: all four actions, three splits.
C17_Witness ==
    /\ p_pc = "decide"
    /\ e_pc = "ev"
    /\ p_hands = << <<5, 5>> >>
    /\ e_allowed = Action
    /\ e_splits = 3

\* A step that applied a decision (no draw panicked).
DecisionApplied ==
    /\ p_pc = "decide"
    /\ p_pc' # "panic"
    /\ p_result'.decisions_made = p_result.decisions_made + 1

C19_Split ==
    [][/\ (p_pc = "decide" /\ Len(p_hands') > Len(p_hands)) =>
             LET r == p_hands[p_idx][1]
                 new == p_hands'[Len(p_hands')]
                 cur == p_hands'[p_idx]
                 two == Deck_removed(Deck_removed(p_deck, new[2]), cur[2])
                 aces == r = A /\ ~rules.hit_split_aces
             IN  /\ p_hands[p_idx] = <<r, r>>
                 /\ Len(p_hands') = Len(p_hands) + 1
                 /\ Len(new) = 2 /\ new[1] = r
                 /\ Len(cur) = 2 /\ cur[1] = r
                 /\ p_bets' = Append(p_bets, p_bets[p_idx])
                 /\ IF aces
                    THEN /\ \E c \in RANKS : p_deck' = Deck_removed(two, c)
                         /\ p_pc' = "dealer"
                         /\ ~p_all'
                    ELSE /\ p_deck' = two
                         /\ p_all'
       /\ ~p_all =>
             /\ p_pc \in {"dealer", "done"}
             /\ p_result'.decisions_made = p_result.decisions_made
             /\ p_hands' = p_hands
             /\ Len(p_hands) = 2
             /\ \A i \in 1..2 : Len(p_hands[i]) = 2 /\ p_hands[i][1] = A]_vars

\* Aces were split: the hand ended after that single decision, both ace
\* hands with two cards, three cards gone from the deck.
C19_Witness ==
    /\ p_pc = "done"
    /\ ~p_all
    /\ Len(p_hands) = 2
    /\ p_hands[1][1] = A /\ p_hands[2][1] = A
    /\ Len(p_hands[1]) = 2 /\ Len(p_hands[2]) = 2
    /\ p_result.decisions_made = 1
    /\ p_bets = <<1, 1>>

\* The dealer has to draw: total below 17, or a soft 17 under hit_soft_17.
StatedDealerDraws(r, dealer) ==
    \/ Hand_total(dealer) < 17
    \/ (Hand_total(dealer) = 17 /\ Hand_is_soft(dealer) /\ r.hit_soft_17)

\* C20: the dealer draws only if at least one player slot is not busted;
\* then the dealer draws while total < 17, or total = 17 soft with
\* hit_soft_17, and stops otherwise, so the final total is >= 17 and not a
\* soft 17 under hit_soft_17; if every slot is busted the dealer draws no
\* card.
C20_DealerAction ==
    [][p_pc = "dealer" =>
          LET live == \E i \in 1..Len(p_hands) : Hand_total(p_hands[i]) <= 21
          IN  IF live /\ StatedDealerDraws(rules, p_dealer)
              THEN \/ p_pc' = "panic" /\ Deck_len(p_deck) = 0
                   \/ /\ p_pc' = "dealer"
                      /\ \E c \in RANKS :
                            /\ p_dealer' = Append(p_dealer, c)
                            /\ p_deck' = Deck_removed(p_deck, c)
              ELSE /\ p_pc' = "done"
                   /\ UNCHANGED <<p_deck, p_dealer>>
                   /\ live =>
                        /\ Hand_total(p_dealer) >= 17
                        /\ ~(Hand_total(p_dealer) = 17 /\ Hand_is_soft(p_dealer)
                               /\ rules.hit_soft_17)
                   /\ ~live => Len(p_dealer) = 2]_vars

\* The dealer drew on the soft 17 of an ace and a six and then stopped.
C20_Witness ==
    /\ p_pc = "done"
    /\ rules.hit_soft_17
    /\ Len(p_dealer) > 2
    /\ p_dealer[1] = A /\ p_dealer[2] = 6
    /\ Hand_total(p_dealer) >= 17

\* The number of cards of rank r in a hand, and in the dealer hand and the
\* player hand slots together.
RECURSIVE StatedCount(_, _, _)
StatedCount(hand, r, i) ==
    IF i > Len(hand) THEN 0
    ELSE (IF hand[i] = r THEN 1 ELSE 0) + StatedCount(hand, r, i + 1)

RECURSIVE StatedHeldInSlots(_, _, _)
StatedHeldInSlots(hands, r, i) ==
    IF i > Len(hands) THEN 0
    ELSE StatedCount(hands[i], r, 1) + StatedHeldInSlots(hands, r, i + 1)

StatedHeld(dealer, hands, r) ==
    StatedCount(dealer, r, 1) + StatedHeldInSlots(hands, r, 1)

\* C27: cards are conserved by play_hand: for every rank, what a step
\* removes from the deck is what it adds to the dealer hand and the player
\* hand slots, so that at every point the count removed since the start of
\* the hand is the count held (no drawn card is dropped, no card appears in
\* a hand without having been drawn).
C27_CardsConserved ==
    [][p_pc' # "panic" =>
          \A r \in RANKS :
             p_deck[r] - p_deck'[r] =
                StatedHeld(p_dealer', p_hands', r)
                  - StatedHeld(p_dealer, p_hands, r)]_vars

(***************************************************************************)
(* Termination of a played hand (checked under SpecLive).                  *)
(***************************************************************************)
\* C28: play_hand always terminates when the deck holds enough cards: a
\* decision is requested only on a slot that is not busted and every Hit or
\* Double adds a card of value >= 1, so each slot stands, doubles or busts
\* after finitely many decisions; the number of slots is bounded; the
\* dealer draws only below 18 and stops once at 17 or more (a soft 17 under
\* hit_soft_17 excepted); and the payout is eventually computed for every
\* slot.  The only other end is a draw from an exhausted deck.
C28_Terminates ==
    /\ <>(p_pc \in {"done", "panic"})
    /\ [][/\ p_pc' = "panic" => Deck_len(p_deck') = 0
          /\ p_pc = "decide" =>
                /\ Hand_total(p_hands[p_idx]) <= 21
                /\ Len(p_hands) <= rules.split_hands_limit
                /\ \/ p_pc' = "panic"
                   \/ p_hands'[p_idx] = p_hands[p_idx] /\ p_idx' = p_idx + 1
                   \/ SumValues(p_hands'[p_idx]) > SumValues(p_hands[p_idx])
                   \/ Len(p_hands') = Len(p_hands) + 1
          /\ (p_pc = "dealer" /\ p_dealer' # p_dealer) =>
                /\ Hand_total(p_dealer) < 18
                /\ SumValues(p_dealer') > SumValues(p_dealer)
          /\ (p_pc = "dealer" /\ p_pc' = "done") =>
                p_result'.bet_units_placed =
                   p_result.bet_units_placed + StatedBetsPlaced(p_bets, 1)]_vars

\* A hand ended after two hits on its slot and a dealer draw.
C28_Witness ==
    /\ p_pc = "done"
    /\ Len(p_hands) = 1
    /\ Len(p_hands[1]) = 4
    /\ Hand_total(p_hands[1]) <= 21
    /\ Len(p_dealer) > 2
    /\ p_result.bet_units_placed = 1

(***************************************************************************)
(* Properties of a played hand with several slots (checked under           *)
(* SpecSlots).                                                             *)
(***************************************************************************)
\* What a slot wins as stated: a busted slot loses its bet, a slot that is
\* not busted wins it from a busted dealer, and otherwise the totals decide.
StatedSlotOutcome(hand, bet, dealer) ==
    IF Hand_total(hand) > 21 THEN <<-bet, 1>>
    ELSE IF Hand_total(dealer) > 21 THEN <<bet, 1>>
    ELSE IF Hand_total(hand) > Hand_total(dealer) THEN <<bet, 1>>
    ELSE IF Hand_total(hand) < Hand_total(dealer) THEN <<-bet, 1>>
    ELSE Zero

RECURSIVE StatedOutcomeSum(_, _, _, _)
StatedOutcomeSum(hands, bets, dealer, i) ==
    IF i > Len(hands) THEN Zero
    ELSE RAdd(StatedSlotOutcome(hands[i], bets[i], dealer),
              StatedOutcomeSum(hands, bets, dealer, i + 1))

\* C21: the payout of each slot compares its score with the dealer's, a
\* busted player scoring 0 and a busted dealer scoring 1: +bet if greater,
\* 0 if equal, -bet if lower.  A busted slot loses its bet even when the
\* dealer also busts, a slot that is not busted wins when the dealer busts,
\* and the payout step adds the sum over the slots to roi, which held the
\* insurance result.
C21_SlotPayout ==
    [][(p_pc = "dealer" /\ p_pc' = "done") =>
          /\ \A i \in 1..Len(p_hands) :
                /\ play_hand_score(p_hands[i]) =
                     (IF Hand_total(p_hands[i]) > 21 THEN 0
                      ELSE Hand_total(p_hands[i]))
                /\ Hand_total(p_hands[i]) > 21 =>
                     play_hand_score(p_hands[i]) < play_dealer_score(p_dealer)
                /\ (Hand_total(p_hands[i]) <= 21 /\ Hand_total(p_dealer) > 21) =>
                     play_hand_score(p_hands[i]) > play_dealer_score(p_dealer)
          /\ play_dealer_score(p_dealer) =
               (IF Hand_total(p_dealer) > 21 THEN 1 ELSE Hand_total(p_dealer))
          /\ p_result'.roi =
               RAdd(p_result.roi, StatedOutcomeSum(p_hands, p_bets, p_dealer, 1))
          /\ p_result.roi = insurance_roi(p_result.insurances_taken = 1,
                                          p_dealer[2])]_vars

\* Two slots were paid against a busted dealer: the busted one lost its
\* bet, the other one won it.
C21_Witness ==
    /\ p_pc = "done"
    /\ Len(p_hands) = 2
    /\ Hand_total(p_dealer) > 21
    /\ Hand_total(p_hands[1]) > 21
    /\ Hand_total(p_hands[2]) <= 21
    /\ p_bets = <<1, 1>>
    /\ p_result.roi = Zero

\* C26: throughout play_hand the number of player hand slots never exceeds
\* split_hands_limit, a pair of aces is split at most once (at most
\* split_aces_limit = 2 ace hands), and the unsigned subtractions
\* split_hands_limit - num_hands and split_aces_limit - num_hands of the
\* mask computation never underflow.
C26_SlotLimits ==
    /\ Len(p_hands) <= rules.split_hands_limit
    /\ \A i \in 1..Len(p_hands) :
          p_hands[i][1] = A =>
             /\ Len(p_hands) <= rules.split_aces_limit
             /\ Len(p_hands) <= 2
    /\ p_pc = "decide" =>
          LET hand == p_hands[p_idx]
              pair == Len(hand) = 2 /\ hand[1] = hand[2]
          IN  /\ (pair /\ hand[1] = A) =>
                   rules.split_aces_limit >= Len(p_hands)
              /\ (pair /\ hand[1] # A) =>
                   rules.split_hands_limit >= Len(p_hands)
              /\ play_splits_allowed(rules, hand, Len(p_hands))
                   \in 0..rules.split_hands_limit

\* Four slots, the limit, and a decision on a pair of fives that cannot be
\* split any more.
C26_Witness ==
    /\ p_pc = "decide"
    /\ Len(p_hands) = 4
    /\ p_hands[p_idx] = <<5, 5>>
    /\ play_splits_allowed(rules, p_hands[p_idx], Len(p_hands)) = 0
    /\ Split \notin play_allowed_actions(rules, p_hands[p_idx], Len(p_hands))

(***************************************************************************)
(* Properties of the solver's recursion below a decision of play_hand      *)
(* (checked under SpecSolve).                                              *)
(***************************************************************************)
\* C22: at every invocation of ev, made by the simulator through
\* perfect_play or by ev_hit and ev_split, allowed_actions[Split] holds iff
\* splits_allowed > 0, so the entry assertion never fails; and whenever
\* allowed_actions[Split] holds the hand is a Pair, so ev_split never
\* reaches its panic on a hand that is not a pair (nor its assertion).
C22_SplitInvariant ==
    [][/\ e_pc' = "ev" =>
             /\ (Split \in e_allowed') <=> (e_splits' > 0)
             /\ Split \in e_allowed' => e_hand'.tag = "Pair"
       /\ e_pc = "ev" => e_pc' # "panic"
       /\ e_pc' = "ev_split" => e_splits' > 0 /\ e_hand'.tag = "Pair"
       /\ (e_pc = "ev_split" /\ e_pc' = "panic") =>
             p_next_card_is_each(e_deck, TRUE, TRUE).panicked]_vars

\* ev is invoked by ev_split on a new pair with one split fewer: the hand
\* of the simulator is the only slot, which had three splits.
C22_Witness ==
    /\ e_pc = "ev"
    /\ Len(p_hands) = 1
    /\ e_hand.tag = "Pair"
    /\ Split \in e_allowed
    /\ e_splits = 2

\* The probability-weighted sum as stated: over the ranks c the deck holds,
\* the share of c in the deck times the value returned for c.
RECURSIVE StatedWeightedSum(_, _, _)
StatedWeightedSum(deck, returned, c) ==
    IF c > 9 THEN Zero
    ELSE RAdd(IF deck[c] > 0
              THEN RMul(Rat(deck[c], Deck_len(deck)), returned[c]) ELSE Zero,
              StatedWeightedSum(deck, returned, c + 1))

\* C23: after splitting Pair(r), for each drawn new second card c the solver
\* recurses on Single(r) + c with the deck less c and a mask in which Stand
\* is allowed, Hit is allowed iff hit_split_aces or r # A, and Split is
\* allowed iff splits_left > 1 and c = r, passing splits_left - 1 in that
\* case and 0 otherwise; when Hit is not allowed the stand EV of the hand is
\* used; the split EV is twice the probability-weighted sum over c.
C23_SplitRecursion ==
    [][/\ (e_pc = "ev_split" /\ e_pc' \in {"ev", "ev_stand"}) =>
             LET r == e_hand.v
                 hit_allowed == rules.hit_split_aces \/ r # A
             IN  \E c \in RANKS :
                    /\ e_deck[c] > 0
                    /\ e_deck' = Deck_removed(e_deck, c)
                    /\ e_hand' = CanonicalHand_add(Single(r), c)
                    /\ Stand \in e_allowed'
                    /\ (Hit \in e_allowed') <=> hit_allowed
                    /\ (Split \in e_allowed') <=> (e_splits > 1 /\ c = r)
                    /\ e_splits' = (IF e_splits > 1 /\ c = r
                                    THEN e_splits - 1 ELSE 0)
                    /\ e_pc' = (IF hit_allowed THEN "ev" ELSE "ev_stand")
       /\ (e_pc = "ev_split" /\ e_pc' = "ret") =>
             e_value' = RMul(<<2, 1>>,
                             StatedWeightedSum(e_deck, e_returned', 0))]_vars

\* A pair of aces was split under hit_split_aces and the solver is asked
\* for the EV of an ace and a five, with Stand and Hit allowed.
C23_Witness ==
    /\ rules.hit_split_aces
    /\ e_pc = "ev"
    /\ p_hands[p_idx] = <<A, A>>
    /\ e_hand = CanonicalHand_add(Single(A), 5)
    /\ e_allowed = {Stand, Hit}
    /\ e_splits = 0

\* Double on a two-card hand after a split, as stated.
StatedDoubleAfterSplit(r, hand) ==
    /\ r.double_after_split
    /\ (r.double_any_hands
          \/ Hand_total(hand) \in r.double_hard_hands_thru_11..11)

\* C24: in the solver's evaluation of a split, Double is re-enabled on each
\* two-card hand after the split iff double_after_split holds and the other
\* double conditions (double_any_hands, or double_hard_hands_thru_11 <=
\* total <= 11) hold on the new hand; this is the Double entry of the mask
\* the simulator computes for the same hand with num_hands > 1.
C24_DoubleAfterSplit ==
    [][(e_pc = "ev_split" /\ e_pc' = "ev") =>
          \A c \in RANKS :
             e_hand' = CanonicalHand_add(Single(e_hand.v), c) =>
                /\ (Double \in e_allowed') <=>
                      StatedDoubleAfterSplit(rules, <<e_hand.v, c>>)
                /\ (Double \in e_allowed') <=>
                      (Double \in play_allowed_actions(rules, <<e_hand.v, c>>,
                                                       2))]_vars

\* The summaries of the hands that hold a card taken by Hit.
StatedHasHit(hand) == hand.tag \in {"Hard3PlusCard", "Soft3PlusCard", "Busted"}

\* C25: in the solver, once the player has taken a card by Hit, every later
\* decision on that hand, at any recursion depth, allows only Stand and Hit
\* with splits_allowed = 0: Double and Split never become available again.
\* Double is evaluated as exactly twice the probability-weighted stand EV
\* of the hand after one more card, with no further action after that card.
C25_AfterHitAndDouble ==
    [][/\ (e_pc = "ev_hit" /\ e_again /\ e_pc' = "ev") =>
             /\ e_allowed' = {Stand, Hit}
             /\ e_splits' = 0
             /\ StatedHasHit(e_hand')
             /\ \E c \in RANKS : /\ e_deck[c] > 0
                                 /\ e_hand' = CanonicalHand_add(e_hand, c)
                                 /\ e_deck' = Deck_removed(e_deck, c)
       /\ (e_pc' = "ev" /\ StatedHasHit(e_hand')) =>
             e_allowed' = {Stand, Hit} /\ e_splits' = 0
       /\ (e_pc # "idle" /\ StatedHasHit(e_hand)) =>
             /\ StatedHasHit(e_hand')
             /\ e_allowed' = e_allowed /\ e_splits' = e_splits
       /\ (e_pc = "ev_hit" /\ ~e_again) =>
             \/ e_pc' = "panic"
             \/ /\ e_pc' = "ev_stand"
                /\ \E c \in RANKS : /\ e_deck[c] > 0
                                    /\ e_hand' = CanonicalHand_add(e_hand, c)
                                    /\ e_deck' = Deck_removed(e_deck, c)
             \/ /\ e_pc' = "ret"
                /\ e_value' = RMul(<<2, 1>>,
                                   StatedWeightedSum(e_deck, e_returned', 0))
       /\ e_pc = "ev_stand" => e_pc' \in {"ret", "dealer"}]_vars

\* The solver took two cards by Hit on a two-card hand of the simulator and
\* is asked for the next decision.
C25_Witness ==
    /\ e_pc = "ev"
    /\ Len(p_hands[p_idx]) = 2
    /\ e_hand.tag = "Hard3PlusCard"
    /\ Deck_len(e_deck) = Deck_len(p_deck) - 1
    /\ e_allowed = {Stand, Hit}
    /\ e_splits = 0

(***************************************************************************)
(* Properties of the dealer hand summary.                                  *)
(***************************************************************************)
\* C29: the dealer hand summary is a faithful fold: for every non-empty
\* sequence of ranks, starting from from_single_card of the first rank and
\* adding the remaining ranks yields the total and the softness of the Hand
\* of the sequence, and is_one exactly when the sequence has one card; the
\* solver continues from the summary as the cards continue: its test of a
\* finished dealer is the stopping rule on the cards, and the summary plus
\* any next rank is the summary of the cards plus that rank.
C29_FaithfulFold ==
    cards # <<>> =>
        LET summary == HashedDealerHand_of_cards(cards)
        IN  /\ summary.total = Hand_total(cards)
            /\ summary.is_soft = Hand_is_soft(cards)
            /\ summary.is_one = (Len(cards) = 1)
            /\ \A r \in DealerRuleSets :
                   dealer_finished(summary, r) = play_dealer_stops(r, cards)
            /\ \A next_card \in RANKS :
                   LET after == HashedDealerHand_add(summary, next_card)
                   IN  /\ after.total = Hand_total(Append(cards, next_card))
                       /\ after.is_soft = Hand_is_soft(Append(cards, next_card))
                       /\ ~after.is_one

\* A soft two-card hand was demoted by a third card and then drew an ace
\* that counts 1.
C29_Witness ==
    /\ Len(cards) = 4
    /\ cards[4] = A
    /\ HashedDealerHand_of_cards(SubSeq(cards, 1, 2)).is_soft
    /\ ~HashedDealerHand_of_cards(SubSeq(cards, 1, 3)).is_soft
    /\ HashedDealerHand_of_cards(cards).total = 18
    /\ ~HashedDealerHand_of_cards(cards).is_soft

(***************************************************************************)
(* Properties of the bets of a played hand.                                *)
(***************************************************************************)
RECURSIVE StatedBetSum(_)
StatedBetSum(bets) ==
    IF bets = <<>> THEN 0 ELSE Head(bets) + StatedBetSum(Tail(bets))

\* The step is a Double of the current slot: one card is drawn and added to
\* it, and the slot is finished.
StatedDoubleStep ==
    /\ p_pc = "decide"
    /\ Double \in play_allowed_actions(rules, p_hands[p_idx], Len(p_hands))
    /\ Len(p_bets') = Len(p_bets)
    /\ \A j \in 1..Len(p_bets) : j # p_idx => p_bets'[j] = p_bets[j]
    /\ p_pc' # "panic" =>
          /\ Deck_len(p_deck') = Deck_len(p_deck) - 1
          /\ Len(p_hands') = Len(p_hands)
          /\ \E r \in RANKS :
                /\ p_deck'[r] = p_deck[r] - 1
                /\ p_hands' = [p_hands EXCEPT ![p_idx] = Append(@, r)]
          /\ p_idx' = p_idx + 1

\* C30: in play_hand the bet multiplier of every slot is 1 or 2 at all
\* times; it becomes 2 only by a Double, which also draws exactly one card
\* and ends that slot; a slot created by Split starts at 1; at the payout
\* bet_units_placed is the sum of the slot bets and the main-bet part of roi
\* lies between -bet_units_placed and +bet_units_placed.
C30_BetMultipliers ==
    [][/\ \A i \in 1..Len(p_bets) : p_bets[i] \in {1, 2}
       /\ \A i \in 1..Len(p_bets') : p_bets'[i] \in {1, 2}
       /\ \A i \in 1..Len(p_bets) :
             (i <= Len(p_bets') /\ p_bets'[i] # p_bets[i]) =>
                /\ p_bets[i] = 1
                /\ i = p_idx
                /\ StatedDoubleStep
       /\ (p_pc = "decide" /\ Len(p_bets') # Len(p_bets)) =>
             /\ Split \in play_allowed_actions(rules, p_hands[p_idx], Len(p_hands))
             /\ p_bets' = Append(p_bets, 1)
             /\ p_pc' # "panic" => Len(p_hands') = Len(p_bets')
       /\ (p_pc = "dealer" /\ p_pc' = "done") =>
             LET main == RSub(p_result'.roi, p_result.roi)
                 placed == p_result'.bet_units_placed
             IN  /\ placed = StatedBetSum(p_bets)
                 /\ Len(p_bets) = Len(p_hands)
                 /\ main[2] > 0
                 /\ -placed * main[2] <= main[1]
                 /\ main[1] <= placed * main[2]]_vars

\* A hand was split, its first slot was doubled and the second was not; the
\* three units were placed and lost.
C30_Witness ==
    /\ p_pc = "done"
    /\ p_bets = <<2, 1>>
    /\ Len(p_hands) = 2
    /\ Len(p_hands[1]) = 3
    /\ p_result.bet_units_placed = 3
    /\ p_result.insurances_taken = 0
    /\ p_result.roi = <<-3, 1>>

====
